---- MODULE Spec2Model ----
(***************************************************************************)
(* Market-Picture analytical engine: the rule-based regime classifier      *)
(* (backend/intelligence/regime.py) over the market_snapshots table, and   *)
(* the Pearson correlation of backend/intelligence/correlations.py.        *)
(*                                                                         *)
(* Numbers are fixed-point integers.  Percent changes are in tenths of a   *)
(* percent (the precision the details print, "{:.1f}"), the HY spread is   *)
(* in hundredths of a percent, that is basis points ("{:.2f}"), the SPY    *)
(* price is in whole units ("{:.0f}").                                     *)
(***************************************************************************)
EXTENDS Integers, Sequences, FiniteSets, TLC

VARIABLES
    market_snapshots,   \* the rows of table market_snapshots (db.py)
    signals,            \* argument of a direct call of _classify / _build_reason
    xs, ys,             \* arguments of a direct call of _pearson_r
    ret,                \* what the last call returned
    returns_by_symbol,  \* argument of _compute_correlation_matrix, _group_by_correlation
    pair_correlations,  \* argument of _group_by_correlation and of the multi-day detectors
    snapshots,          \* argument of _group_by_comovement and of the single-day detectors
    daily_close_series, \* the result of _get_daily_close_series: closes by symbol
    classifier          \* the frame of a classify_regime call suspended at an await

correlation_inputs == <<returns_by_symbol, pair_correlations, snapshots,
                        daily_close_series>>

vars == <<market_snapshots, signals, xs, ys, ret, correlation_inputs, classifier>>

----------------------------------------------------------------------------
(* Python's None and an Optional value.                                    *)
None == <<>>
Some(v) == <<v>>
Get(o) == o[1]

\* ret before any call
NoCall == [op |-> "none"]

\* no classify_regime call is suspended
NotRunning == [pc |-> "none"]

----------------------------------------------------------------------------
(* Bounds of the model.                                                    *)
MaxRows == 6        \* rows in market_snapshots, specification Spec
MaxSpyRows == 4     \* rows in market_snapshots, specification SpecSpx
MaxHyRows == 2      \* rows in market_snapshots, specification SpecHy
MaxBatch == 1       \* quotes in one save_quotes call
MaxDay == 1         \* calendar days of the intraday history 0..MaxDay
MaxTod == 2         \* times of day 0..MaxTod
MaxSignals == 6     \* length of a signal list handed to _classify directly
MaxLen == 5         \* length of a series handed to _pearson_r directly
FloatPrecision == 3 \* bits of a float's significand (a double has 53)
MaxPairLen == 6     \* length of a series, specification SpecPearsonPairs
MaxDates == 6       \* days of a return series 1..MaxDates, specification SpecMatrix
MaxPairs == 3       \* entries of a correlation matrix, specification SpecDetectors
MaxSnapshots == 3   \* symbols with a latest snapshot, specification SpecSingleDay
MaxPrices == 4      \* closes of a series handed to _compute_daily_returns alone

----------------------------------------------------------------------------
(* config.py: REGIME_THRESHOLDS, in the model's fixed-point units.         *)
vixy_spike_pct == 50            \* 5.0 %
vixy_drop_pct == -50            \* -5.0 %
hy_spread_risk_off == 500       \* 5.0 %
hy_spread_risk_on == 350        \* 3.5 %
hy_spread_widening_bps == 10    \* 10 bps
uup_spike_pct == 10             \* 1.0 %
gold_safe_haven_pct == 15       \* 1.5 %
\* REGIME_THRESHOLDS["spx_ma_period"] is 20 and the query of _compute_sma
\* reads LIMIT 500 rows: 25 rows per day of the window.  The model keeps
\* the shape (the limit is above the period) at a size TLC can enumerate.
spx_ma_period == 2
SmaRowLimit == 3
\* _eval_hy_spread asks for the snapshot 7 days back
HyDaysBack == 7
\* config.py: CORRELATION_CONFIG["min_data_points"]
min_data_points == 5

----------------------------------------------------------------------------
(* Timestamps.  An ISO-8601 string compares as its (date, time of day);    *)
(* substr(timestamp, 1, 10) is the date.                                   *)
Timestamp(d, t) == [day |-> d, tod |-> t]
TsLess(a, b) == a.day < b.day \/ (a.day = b.day /\ a.tod < b.tod)
TsLeq(a, b) == a = b \/ TsLess(a, b)
DayOf(ts) == ts.day

\* datetime.now(timezone.utc) - timedelta(days=days_back)
DaysAgo(now, days_back) == Timestamp(now.day - days_back, now.tod)

RowsOf(db, symbol) == {r \in db : r.symbol = symbol}

\* ORDER BY timestamp DESC LIMIT n: the n rows with the latest timestamps
OrderDescLimit(rows, n) ==
    {r \in rows : Cardinality({q \in rows : TsLess(r.timestamp, q.timestamp)}) < n}

\* ... ORDER BY timestamp DESC LIMIT 1, .first()
FirstDesc(rows) ==
    IF rows = {} THEN None
    ELSE Some(CHOOSE r \in rows : \A q \in rows : TsLeq(q.timestamp, r.timestamp))

_get_latest_snapshot(db, symbol) == FirstDesc(RowsOf(db, symbol))

_get_snapshot_n_days_ago(db, now, symbol, days_back) ==
    FirstDesc({r \in RowsOf(db, symbol) : TsLeq(r.timestamp, DaysAgo(now, days_back))})

RECURSIVE SumPrices(_)
SumPrices(rows) ==
    IF rows = {} THEN 0
    ELSE LET r == CHOOSE q \in rows : TRUE
         IN  r.price + SumPrices(rows \ {r})

\* the value of dict daily_closes after the loop: per day, the first (latest)
\* row met in the descending result
DailyCloses(rows) ==
    {r \in rows : \A q \in rows :
        DayOf(q.timestamp) = DayOf(r.timestamp) => TsLeq(q.timestamp, r.timestamp)}

\* list(daily_closes.values())[:period]: the dict keeps the descending order
FirstN(closes, n) ==
    {r \in closes : Cardinality({q \in closes : TsLess(r.timestamp, q.timestamp)}) < n}

\* A moving average is the exact quotient num / den.
_compute_sma(db, symbol, period) ==
    LET rows == OrderDescLimit(RowsOf(db, symbol), SmaRowLimit)
        prices == FirstN(DailyCloses(rows), period)
    IN  IF rows = {} THEN None
        ELSE IF Cardinality(prices) < period THEN None
        ELSE Some([num |-> SumPrices(prices), den |-> Cardinality(prices)])

----------------------------------------------------------------------------
(* Python's format specifications on the fixed-point numbers.              *)
Abs(n) == IF n < 0 THEN -n ELSE n

\* f"{v:.0f}" of the quotient num / den (den > 0): nearest, ties to even
Fmt0(num, den) ==
    LET a == Abs(num)
        q == a \div den
        r == a % den
        m == IF 2 * r > den \/ (2 * r = den /\ q % 2 = 1) THEN q + 1 ELSE q
    IN  (IF num < 0 /\ m > 0 THEN "-" ELSE "") \o ToString(m)

\* f"{v:.1f}" of a number of tenths
Fmt1(v) ==
    (IF v < 0 THEN "-" ELSE "") \o ToString(Abs(v) \div 10) \o "." \o ToString(Abs(v) % 10)

\* f"{v:+.1f}"
Fmt1Signed(v) == (IF v < 0 THEN "" ELSE "+") \o Fmt1(v)

\* f"{v:.2f}" of a number of hundredths
Fmt2(v) ==
    (IF v < 0 THEN "-" ELSE "") \o ToString(Abs(v) \div 100) \o "."
        \o ToString((Abs(v) % 100) \div 10) \o ToString(Abs(v) % 10)

----------------------------------------------------------------------------
(* Signal evaluators.                                                      *)
Signal(n, dir, det) == [name |-> n, direction |-> dir, detail |-> det]

_eval_spx_trend(db) ==
    LET period == spx_ma_period
        latest == _get_latest_snapshot(db, "SPY")
        sma == _compute_sma(db, "SPY", period)
    IN  IF latest = None
        THEN Signal("spx_trend", "neutral", "S&P 500 data unavailable")
        ELSE IF sma = None
        THEN Signal("spx_trend", "neutral",
                    "insufficient history for " \o ToString(period) \o "-day MA")
        ELSE LET price == Get(latest).price
                 both == "(" \o Fmt0(price, 1) \o " vs "
                             \o Fmt0(Get(sma).num, Get(sma).den) \o ")"
             IN  IF price * Get(sma).den > Get(sma).num
                 THEN Signal("spx_trend", "risk_on",
                             "S&P above " \o ToString(period) \o "-day MA " \o both)
                 ELSE Signal("spx_trend", "risk_off",
                             "S&P below " \o ToString(period) \o "-day MA " \o both)

\* _eval_vix counting a change equal to a threshold as a spike or a drop
_eval_vix_inclusive(db) ==
    LET latest == _get_latest_snapshot(db, "VIXY")
    IN  IF latest = None \/ Get(latest).change_pct = None
        THEN Signal("vix", "neutral", "VIXY data unavailable")
        ELSE LET change == Get(Get(latest).change_pct)
             IN  IF change >= vixy_spike_pct
                 THEN Signal("vix", "risk_off", "VIXY spiking (" \o Fmt1Signed(change) \o "%)")
                 ELSE IF change <= vixy_drop_pct
                 THEN Signal("vix", "risk_on", "VIXY falling (" \o Fmt1Signed(change) \o "%)")
                 ELSE Signal("vix", "neutral", "VIXY stable (" \o Fmt1Signed(change) \o "%)")

_eval_vix(db) ==
    LET latest == _get_latest_snapshot(db, "VIXY")
    IN  IF latest = None \/ Get(latest).change_pct = None
        THEN Signal("vix", "neutral", "VIXY data unavailable")
        ELSE LET change == Get(Get(latest).change_pct)
             IN  IF change > vixy_spike_pct
                 THEN Signal("vix", "risk_off", "VIXY spiking (" \o Fmt1Signed(change) \o "%)")
                 ELSE IF change < vixy_drop_pct
                 THEN Signal("vix", "risk_on", "VIXY falling (" \o Fmt1Signed(change) \o "%)")
                 ELSE Signal("vix", "neutral", "VIXY stable (" \o Fmt1Signed(change) \o "%)")

\* _eval_hy_spread testing the tight level before the week-over-week trend
_eval_hy_spread_tight_first(db, now) ==
    LET latest == _get_latest_snapshot(db, "BAMLH0A0HYM2")
    IN  IF latest = None
        THEN Signal("hy_spread", "neutral", "HY spread data unavailable")
        ELSE
        LET spread == Get(latest).price
            week_ago == _get_snapshot_n_days_ago(db, now, "BAMLH0A0HYM2", HyDaysBack)
            change_bps == IF week_ago = None THEN 0 ELSE spread - Get(week_ago).price
        IN  IF spread > hy_spread_risk_off
            THEN Signal("hy_spread", "risk_off", "HY spread elevated (" \o Fmt2(spread) \o "%)")
            ELSE IF spread < hy_spread_risk_on
            THEN Signal("hy_spread", "risk_on", "HY spreads tight (" \o Fmt2(spread) \o "%)")
            ELSE IF week_ago # None /\ change_bps > hy_spread_widening_bps
            THEN Signal("hy_spread", "risk_off",
                        "HY spreads widening (+" \o Fmt0(change_bps, 1) \o " bps WoW)")
            ELSE Signal("hy_spread", "neutral", "HY spread neutral (" \o Fmt2(spread) \o "%)")

\* _eval_hy_spread reading a missing observation as a spread of zero
_eval_hy_spread_default_zero(db, now) ==
    LET latest == _get_latest_snapshot(db, "BAMLH0A0HYM2")
        spread == IF latest = None THEN 0 ELSE Get(latest).price
    IN  IF spread > hy_spread_risk_off
        THEN Signal("hy_spread", "risk_off", "HY spread elevated (" \o Fmt2(spread) \o "%)")
        ELSE IF spread < hy_spread_risk_on
        THEN Signal("hy_spread", "risk_on", "HY spreads tight (" \o Fmt2(spread) \o "%)")
        ELSE Signal("hy_spread", "neutral", "HY spread neutral (" \o Fmt2(spread) \o "%)")

_eval_hy_spread(db, now) ==
    LET latest == _get_latest_snapshot(db, "BAMLH0A0HYM2")
    IN  IF latest = None
        THEN Signal("hy_spread", "neutral", "HY spread data unavailable")
        ELSE
        LET spread == Get(latest).price
            week_ago == _get_snapshot_n_days_ago(db, now, "BAMLH0A0HYM2", HyDaysBack)
            \* (spread - week_ago["price"]) * 100, the spread being in bps here
            change_bps == IF week_ago = None THEN 0 ELSE spread - Get(week_ago).price
        IN  IF spread > hy_spread_risk_off
            THEN Signal("hy_spread", "risk_off", "HY spread elevated (" \o Fmt2(spread) \o "%)")
            ELSE IF week_ago # None /\ change_bps > hy_spread_widening_bps
            THEN Signal("hy_spread", "risk_off",
                        "HY spreads widening (+" \o Fmt0(change_bps, 1) \o " bps WoW)")
            ELSE IF spread < hy_spread_risk_on
            THEN Signal("hy_spread", "risk_on", "HY spreads tight (" \o Fmt2(spread) \o "%)")
            ELSE Signal("hy_spread", "neutral", "HY spread neutral (" \o Fmt2(spread) \o "%)")

_eval_dxy(db) ==
    LET latest == _get_latest_snapshot(db, "UUP")
    IN  IF latest = None \/ Get(latest).change_pct = None
        THEN Signal("dxy", "neutral", "UUP data unavailable")
        ELSE LET change == Get(Get(latest).change_pct)
             IN  IF change > uup_spike_pct
                 THEN Signal("dxy", "risk_off", "dollar spiking (+" \o Fmt1(change) \o "%)")
                 ELSE Signal("dxy", "neutral", "UUP stable (" \o Fmt1Signed(change) \o "%)")

\* _eval_gold_vs_equities with "or" for "and" in the safe-haven test
_eval_gold_vs_equities_or(db) ==
    LET gold == _get_latest_snapshot(db, "GLD")
        spx == _get_latest_snapshot(db, "SPY")
    IN  IF gold = None \/ spx = None
        THEN Signal("gold_vs_equities", "neutral", "gold/equity data unavailable")
        ELSE IF Get(gold).change_pct = None \/ Get(spx).change_pct = None
        THEN Signal("gold_vs_equities", "neutral", "gold/equity change data unavailable")
        ELSE LET gold_pct == Get(Get(gold).change_pct)
                 spx_pct == Get(Get(spx).change_pct)
             IN  IF gold_pct > gold_safe_haven_pct \/ gold_pct > spx_pct
                 THEN Signal("gold_vs_equities", "risk_off",
                             "gold outperforming equities (+" \o Fmt1(gold_pct)
                                 \o "% vs +" \o Fmt1(spx_pct) \o "%)")
                 ELSE Signal("gold_vs_equities", "neutral", "gold not outperforming")

_eval_gold_vs_equities(db) ==
    LET gold == _get_latest_snapshot(db, "GLD")
        spx == _get_latest_snapshot(db, "SPY")
    IN  IF gold = None \/ spx = None
        THEN Signal("gold_vs_equities", "neutral", "gold/equity data unavailable")
        ELSE IF Get(gold).change_pct = None \/ Get(spx).change_pct = None
        THEN Signal("gold_vs_equities", "neutral", "gold/equity change data unavailable")
        ELSE LET gold_pct == Get(Get(gold).change_pct)
                 spx_pct == Get(Get(spx).change_pct)
             IN  IF gold_pct > gold_safe_haven_pct /\ gold_pct > spx_pct
                 THEN Signal("gold_vs_equities", "risk_off",
                             "gold outperforming equities (+" \o Fmt1(gold_pct)
                                 \o "% vs +" \o Fmt1(spx_pct) \o "%)")
                 ELSE Signal("gold_vs_equities", "neutral", "gold not outperforming")

----------------------------------------------------------------------------
(* Aggregation.                                                            *)
CountDirection(sigs, dir) ==
    Cardinality({i \in 1..Len(sigs) : sigs[i].direction = dir})

\* _classify with the risk-off test off by one (risk_off > 2)
_classify_off_by_one(sigs) ==
    LET risk_on == CountDirection(sigs, "risk_on")
        risk_off == CountDirection(sigs, "risk_off")
    IN  IF risk_off > 2 THEN "RISK-OFF"
        ELSE IF risk_on >= 2 /\ risk_off = 0 THEN "RISK-ON"
        ELSE "MIXED"

\* _classify without the zero-risk-off condition of RISK-ON
_classify_unblocked(sigs) ==
    LET risk_on == CountDirection(sigs, "risk_on")
        risk_off == CountDirection(sigs, "risk_off")
    IN  IF risk_off >= 2 THEN "RISK-OFF"
        ELSE IF risk_on >= 2 THEN "RISK-ON"
        ELSE "MIXED"

_classify(sigs) ==
    LET risk_on == CountDirection(sigs, "risk_on")
        risk_off == CountDirection(sigs, "risk_off")
    IN  IF risk_off >= 2 THEN "RISK-OFF"
        ELSE IF risk_on >= 2 /\ risk_off = 0 THEN "RISK-ON"
        ELSE "MIXED"

\* "; ".join(parts)
RECURSIVE Join(_, _)
Join(sep, parts) ==
    IF parts = <<>> THEN ""
    ELSE IF Len(parts) = 1 THEN parts[1]
    ELSE parts[1] \o sep \o Join(sep, Tail(parts))

IsDirectional(s) == s.direction # "neutral"

\* _build_reason without the filter on the direction
_build_reason_unfiltered(sigs) ==
    LET parts == [i \in 1..Len(sigs) |-> sigs[i].detail]
    IN  IF parts = <<>> THEN "Insufficient data for regime classification"
        ELSE Join("; ", parts)

_build_reason(sigs) ==
    LET kept == SelectSeq(sigs, IsDirectional)
        parts == [i \in 1..Len(kept) |-> kept[i].detail]
    IN  IF parts = <<>> THEN "Insufficient data for regime classification"
        ELSE Join("; ", parts)

\* classify_regime labelling before the last evaluator has been appended
RegimeResult_early_label(db, now) ==
    LET first == << _eval_spx_trend(db), _eval_vix(db), _eval_hy_spread(db, now),
                    _eval_dxy(db) >>
        sigs == Append(first, _eval_gold_vs_equities(db))
    IN  [label |-> _classify(first), reason |-> _build_reason(sigs),
         signals |-> sigs, timestamp |-> now]

\* The RegimeResult of classify_regime (its timestamp is the call's clock).
RegimeResult(db, now) ==
    LET sigs == << _eval_spx_trend(db), _eval_vix(db), _eval_hy_spread(db, now),
                   _eval_dxy(db), _eval_gold_vs_equities(db) >>
    IN  [label |-> _classify(sigs), reason |-> _build_reason(sigs),
         signals |-> sigs, timestamp |-> now]

----------------------------------------------------------------------------
(* Python floats.  A float is a binary floating-point number: a significand *)
(* of FloatPrecision bits times a power of two.  The model's floats are the *)
(* integers of that shape (the unit is the smallest subnormal), and every   *)
(* operation returns the float nearest to its exact result, ties to even.   *)
RECURSIVE BitLen(_)
BitLen(k) == IF k = 0 THEN 0 ELSE 1 + BitLen(k \div 2)

RECURSIVE Pow2(_)
Pow2(e) == IF e = 0 THEN 1 ELSE 2 * Pow2(e - 1)

\* the float nearest to num / den (den > 0)
RoundToFloat(num, den) ==
    LET a == Abs(num)
        len == BitLen(a \div den)
        ulp == IF len <= FloatPrecision THEN 1 ELSE Pow2(len - FloatPrecision)
        m == a \div (den * ulp)
        twice_rest == 2 * (a - m * den * ulp)
        up == twice_rest > den * ulp \/ (twice_rest = den * ulp /\ m % 2 = 1)
        mag == (IF up THEN m + 1 ELSE m) * ulp
    IN  IF num < 0 THEN -mag ELSE mag

IsFloat(k) == RoundToFloat(k, 1) = k

FAdd(a, b) == RoundToFloat(a + b, 1)
FSub(a, b) == RoundToFloat(a - b, 1)
FMul(a, b) == RoundToFloat(a * b, 1)
FDiv(a, b) == RoundToFloat(a, b)

\* sum(values): the additions from left to right, each one rounded
RECURSIVE FSum(_)
FSum(values) ==
    IF values = <<>> THEN 0
    ELSE FAdd(FSum(SubSeq(values, 1, Len(values) - 1)), values[Len(values)])

----------------------------------------------------------------------------
(* correlations.py: the Pearson coefficient.                               *)
Min(a, b) == IF a <= b THEN a ELSE b

\* _pearson_r with the mean of ys taken over the whole of ys
_pearson_r_untruncated(xs0, ys0) ==
    LET min_pts == min_data_points
        n == Min(Len(xs0), Len(ys0))
    IN  IF n < min_pts THEN None
        ELSE
        LET x == SubSeq(xs0, 1, n)
            y == SubSeq(ys0, 1, n)
            mean_x == FDiv(FSum(x), n)
            mean_y == FDiv(FSum(ys0), n)
            dx == [i \in 1..n |-> FSub(x[i], mean_x)]
            dy == [i \in 1..n |-> FSub(y[i], mean_y)]
            var_x == FSum([i \in 1..n |-> FMul(dx[i], dx[i])])
            var_y == FSum([i \in 1..n |-> FMul(dy[i], dy[i])])
            cov == FSum([i \in 1..n |-> FMul(dx[i], dy[i])])
        IN  IF var_x = 0 \/ var_y = 0 THEN None
            ELSE Some([cov |-> cov, var_x |-> var_x, var_y |-> var_y])

\* The coefficient cov / (var_x * var_y) ** 0.5 is kept as its three floats.
_pearson_r(xs0, ys0) ==
    LET min_pts == min_data_points
        n == Min(Len(xs0), Len(ys0))
    IN  IF n < min_pts THEN None
        ELSE
        LET x == SubSeq(xs0, 1, n)
            y == SubSeq(ys0, 1, n)
            mean_x == FDiv(FSum(x), n)
            mean_y == FDiv(FSum(y), n)
            dx == [i \in 1..n |-> FSub(x[i], mean_x)]
            dy == [i \in 1..n |-> FSub(y[i], mean_y)]
            var_x == FSum([i \in 1..n |-> FMul(dx[i], dx[i])])
            var_y == FSum([i \in 1..n |-> FMul(dy[i], dy[i])])
            cov == FSum([i \in 1..n |-> FMul(dx[i], dy[i])])
        IN  IF var_x = 0 \/ var_y = 0 THEN None
            ELSE Some([cov |-> cov, var_x |-> var_x, var_y |-> var_y])

\* cov / (var_x * var_y) ** 0.5: the quotient of cov and the square root of
\* the float product, which the two floats cov and radicand determine
Coefficient(v) == [cov |-> v.cov, radicand |-> FMul(v.var_x, v.var_y)]

----------------------------------------------------------------------------
(* The quote job: jobs/daily_update.py, save_quotes.                       *)

\* One quote of the dict handed to save_quotes.  "price" in data is has_price;
\* data.get("change_pct") is None when the provider gave none.
Quote(sym, hp, p, c, ts) ==
    [symbol |-> sym, has_price |-> hp, price |-> p, change_pct |-> c, timestamp |-> ts]

\* rows = [{...} for symbol, data in quotes.items() if "price" in data]
QuoteRows(quotes) ==
    {[symbol |-> q.symbol, price |-> q.price, change_pct |-> q.change_pct,
      timestamp |-> q.timestamp] : q \in {x \in quotes : x.has_price}}

\* The dicts over universe with at most n keys: one quote per symbol.
SymbolsOf(universe) == {q.symbol : q \in universe}
Dicts(universe, n) ==
    UNION {{ {f[k] : k \in keys} : f \in {g \in [keys -> universe] : \A k \in keys : g[k].symbol = k} } :
           keys \in {K \in SUBSET SymbolsOf(universe) : Cardinality(K) <= n}}

\* A provider stamps every quote of a symbol with a time of its own.
FreshStamps(db, quotes) ==
    \A q \in quotes : \A r \in db : r.symbol = q.symbol => r.timestamp # q.timestamp

\* save_quotes(quotes), the quotes drawn from universe; failed is the INSERT
\* raising (the except branch: rollback, return 0).
save_quotes(universe, max_rows) ==
    \E quotes \in Dicts(universe, MaxBatch) :
    \E failed \in BOOLEAN :
        /\ FreshStamps(market_snapshots, quotes)
        /\ Cardinality(market_snapshots) + Cardinality(QuoteRows(quotes)) <= max_rows
        /\ LET rows == QuoteRows(quotes)
           IN  IF quotes = {} \/ rows = {} \/ failed
               THEN /\ market_snapshots' = market_snapshots
                    /\ ret' = [op |-> "save_quotes", value |-> 0]
               ELSE /\ market_snapshots' = market_snapshots \cup rows
                    /\ ret' = [op |-> "save_quotes", value |-> Cardinality(rows)]
        /\ UNCHANGED <<signals, xs, ys, correlation_inputs, classifier>>

\* The clock is not behind the stamps of the stored quotes.
ClockReads(db, clock) == {now \in clock : \A r \in db : TsLeq(r.timestamp, now)}

\* classify_regime(session), datetime.now() drawn from clock
classify_regime(clock) ==
    \E now \in ClockReads(market_snapshots, clock) :
        /\ ret' = [op |-> "classify_regime", value |-> RegimeResult(market_snapshots, now)]
        /\ UNCHANGED <<market_snapshots, signals, xs, ys, correlation_inputs, classifier>>

\* a direct call of _compute_sma(session, "SPY", period)
compute_sma ==
    /\ ret' = [op |-> "_compute_sma",
               value |-> _compute_sma(market_snapshots, "SPY", spx_ma_period)]
    /\ UNCHANGED <<market_snapshots, signals, xs, ys, correlation_inputs, classifier>>

\* a direct call of _classify on the list signals
call_classify ==
    /\ ret' = [op |-> "_classify", value |-> _classify(signals)]
    /\ UNCHANGED <<market_snapshots, signals, xs, ys, correlation_inputs, classifier>>

\* a direct call of _pearson_r on the series xs and ys
call_pearson_r ==
    /\ ret' = [op |-> "_pearson_r", value |-> _pearson_r(xs, ys)]
    /\ UNCHANGED <<market_snapshots, signals, xs, ys, correlation_inputs, classifier>>

----------------------------------------------------------------------------
(* Inputs.                                                                 *)
SeqsUpTo(S, n) == UNION {[1..k -> S] : k \in 0..n}

Directions == {"risk_on", "risk_off", "neutral"}
Labels == {"RISK-ON", "RISK-OFF", "MIXED"}
SignalNames == <<"spx_trend", "vix", "hy_spread", "dxy", "gold_vs_equities">>

\* the whole store: every instrument the classifier reads, a two-day history
RegimeTimes == {Timestamp(d, 0) : d \in 0..1}
RegimeQuotes ==
         {Quote("SPY", hp, p, c, ts) :
            hp \in BOOLEAN, p \in {100, 102}, c \in {None, Some(-10), Some(20)},
            ts \in RegimeTimes}
    \cup {Quote("VIXY", TRUE, 40, c, Timestamp(1, 0)) :
            c \in {None, Some(-51), Some(-50), Some(50), Some(51)}}
    \cup {Quote("BAMLH0A0HYM2", TRUE, p, None, Timestamp(1, 0)) : p \in {340, 400, 501}}
    \cup {Quote("UUP", TRUE, 28, c, Timestamp(1, 0)) : c \in {None, Some(10), Some(11)}}
    \cup {Quote("GLD", TRUE, 180, c, Timestamp(1, 0)) :
            c \in {None, Some(15), Some(16), Some(25)}}
RegimeClock == {Timestamp(1, 0)}

\* the intraday history of SPY
SpyTimes == {Timestamp(d, t) : d \in 0..MaxDay, t \in 0..MaxTod}
SpyQuotes == {Quote("SPY", TRUE, p, Some(0), ts) : p \in {100, 102}, ts \in SpyTimes}
SpyClock == {Timestamp(MaxDay, MaxTod)}

\* the daily history of the HY spread (FRED stamps an observation with its date)
HyTimes == {Timestamp(d, 0) : d \in {0, 1, HyDaysBack + 1}}
HyQuotes ==
    {Quote("BAMLH0A0HYM2", TRUE, p, None, ts) : p \in {330, 345, 360, 501}, ts \in HyTimes}
HyClock == {Timestamp(HyDaysBack + 1, 0), Timestamp(HyDaysBack + 1, 1)}

\* no dict has been handed to the correlation engine
NoCorrelationInputs ==
    /\ returns_by_symbol = <<>>
    /\ pair_correlations = <<>>
    /\ snapshots = <<>>
    /\ daily_close_series = <<>>

----------------------------------------------------------------------------
(* Specifications.                                                         *)
Init ==
    /\ market_snapshots = {}
    /\ signals = <<>>
    /\ xs = <<>>
    /\ ys = <<>>
    /\ ret = NoCall
    /\ NoCorrelationInputs
    /\ classifier = NotRunning

\* the regime classifier over the whole store
Next ==
    \/ save_quotes(RegimeQuotes, MaxRows)
    \/ classify_regime(RegimeClock)

Spec == Init /\ [][Next]_vars

\* the trend signal and its moving average over the intraday history of SPY
NextSpx ==
    \/ save_quotes(SpyQuotes, MaxSpyRows)
    \/ classify_regime(SpyClock)
    \/ compute_sma

SpecSpx == Init /\ [][NextSpx]_vars

\* the credit-spread signal over the daily history of the HY spread
NextHy ==
    \/ save_quotes(HyQuotes, MaxHyRows)
    \/ classify_regime(HyClock)

SpecHy == Init /\ [][NextHy]_vars

\* the aggregation rule on arbitrary signal lists
SignalUniverse == {Signal("s", dir, "a") : dir \in Directions}

InitClassify ==
    /\ market_snapshots = {}
    /\ signals \in SeqsUpTo(SignalUniverse, MaxSignals)
    /\ xs = <<>>
    /\ ys = <<>>
    /\ ret = NoCall
    /\ NoCorrelationInputs
    /\ classifier = NotRunning

NextClassify == call_classify

SpecClassify == InitClassify /\ [][NextClassify]_vars

\* the Pearson coefficient on arbitrary series of floats
ReturnValues == {v \in {1, 4, 7} : IsFloat(v)}
OtherReturnValues == {v \in {2, 6} : IsFloat(v)}

InitPearson ==
    /\ market_snapshots = {}
    /\ signals = <<>>
    /\ xs \in SeqsUpTo(ReturnValues, MaxLen)
    /\ ys \in SeqsUpTo(OtherReturnValues, MaxLen)
    /\ ret = NoCall
    /\ NoCorrelationInputs
    /\ classifier = NotRunning

NextPearson == call_pearson_r

SpecPearson == InitPearson /\ [][NextPearson]_vars

\* the Pearson coefficient on two series of the same kind, of lengths around
\* min_data_points that may differ
PairValues == {v \in {1, 4} : IsFloat(v)}
PairSeries == UNION {[1..k -> PairValues] : k \in (min_data_points - 1)..MaxPairLen}

InitPearsonPairs ==
    /\ market_snapshots = {}
    /\ signals = <<>>
    /\ xs \in PairSeries
    /\ ys \in PairSeries
    /\ ret = NoCall
    /\ NoCorrelationInputs
    /\ classifier = NotRunning

NextPearsonPairs == call_pearson_r

SpecPearsonPairs == InitPearsonPairs /\ [][NextPearsonPairs]_vars

----------------------------------------------------------------------------
(* Properties of the aggregation rule.                                     *)

\* how many signals of a list point in direction dir
RECURSIVE Occurrences(_, _)
Occurrences(sigs, dir) ==
    IF sigs = <<>> THEN 0
    ELSE (IF Head(sigs).direction = dir THEN 1 ELSE 0) + Occurrences(Tail(sigs), dir)

RiskOn == Occurrences(signals, "risk_on")
RiskOff == Occurrences(signals, "risk_off")

\* C1: _classify returns RISK-OFF exactly when at least two signals are
\* risk_off, RISK-ON exactly when none is risk_off and at least two are
\* risk_on, MIXED in every other case; one more risk_off signal on a list with
\* one risk_off and no risk_on turns MIXED into RISK-OFF.
C1_ClassifyRule ==
    ret.op = "_classify" =>
        /\ ret.value \in Labels
        /\ ret.value = "RISK-OFF" <=> RiskOff >= 2
        /\ ret.value = "RISK-ON" <=> (RiskOff = 0 /\ RiskOn >= 2)
        /\ ret.value = "MIXED" <=> (RiskOff < 2 /\ ~(RiskOff = 0 /\ RiskOn >= 2))
        /\ (RiskOff = 1 /\ RiskOn = 0) =>
               /\ ret.value = "MIXED"
               /\ _classify(Append(signals, Signal("s", "risk_off", "a"))) = "RISK-OFF"

\* two risk_off signals win over three risk_on signals
C1_Witness ==
    ret.op = "_classify" /\ RiskOff = 2 /\ RiskOn = 3 /\ ret.value = "RISK-OFF"

\* C2 as stated: at least two risk_on and at least one risk_off give MIXED.
C2_Original ==
    (ret.op = "_classify" /\ RiskOn >= 2 /\ RiskOff >= 1) => ret.value = "MIXED"

\* C2, amended: at least two risk_on and at least one risk_off never give
\* RISK-ON; the label is MIXED when exactly one signal is risk_off and RISK-OFF
\* when two or more are.
C2_RiskOnBlocked ==
    (ret.op = "_classify" /\ RiskOn >= 2 /\ RiskOff >= 1) =>
        /\ ret.value # "RISK-ON"
        /\ RiskOff = 1 => ret.value = "MIXED"
        /\ RiskOff >= 2 => ret.value = "RISK-OFF"

\* one risk_off signal blocks RISK-ON
C2_Witness ==
    ret.op = "_classify" /\ RiskOn >= 2 /\ RiskOff = 1 /\ ret.value = "MIXED"

----------------------------------------------------------------------------
(* Properties of classify_regime.                                          *)

\* the aggregation rule of the regime label, on the counts
LabelOf(sigs) ==
    IF Occurrences(sigs, "risk_off") >= 2 THEN "RISK-OFF"
    ELSE IF Occurrences(sigs, "risk_on") >= 2 /\ Occurrences(sigs, "risk_off") = 0
    THEN "RISK-ON"
    ELSE "MIXED"

Regime == ret.op = "classify_regime"

\* C3: every classify_regime result holds exactly five signals, named
\* spx_trend, vix, hy_spread, dxy, gold_vs_equities in this order, each with a
\* direction of risk_on, risk_off or neutral, and its label is one of RISK-ON,
\* RISK-OFF, MIXED and is the aggregation of these five signals.
C3_FiveSignals ==
    Regime =>
        LET res == ret.value
        IN  /\ Len(res.signals) = 5
            /\ \A i \in 1..5 :
                  /\ res.signals[i].name = SignalNames[i]
                  /\ res.signals[i].direction \in Directions
            /\ res.label \in Labels
            /\ res.label = LabelOf(res.signals)

\* a result over a store with an instrument missing, where the fifth signal
\* decides the label
C3_Witness ==
    /\ Regime
    /\ RowsOf(market_snapshots, "UUP") = {}
    /\ ret.value.signals[3].direction = "risk_off"
    /\ ret.value.signals[5].direction = "risk_off"
    /\ \A i \in {1, 2, 4} : ret.value.signals[i].direction # "risk_off"
    /\ ret.value.label = "RISK-OFF"

\* the details of the non-neutral signals among the first n, joined in order
RECURSIVE ReasonUpTo(_, _)
ReasonUpTo(sigs, n) ==
    IF n = 0 THEN ""
    ELSE LET before == ReasonUpTo(sigs, n - 1)
         IN  IF sigs[n].direction = "neutral" THEN before
             ELSE IF before = "" THEN sigs[n].detail
             ELSE before \o "; " \o sigs[n].detail

AllNeutral(sigs) == \A i \in 1..Len(sigs) : sigs[i].direction = "neutral"

\* C4: the reason of a regime result is the details of its non-neutral
\* signals, in the order of evaluation, joined with "; "; it is the fixed
\* insufficient-data message when every signal is neutral; it is never empty.
C4_Reason ==
    Regime =>
        LET res == ret.value
        IN  /\ AllNeutral(res.signals) =>
                  res.reason = "Insufficient data for regime classification"
            /\ ~AllNeutral(res.signals) =>
                  res.reason = ReasonUpTo(res.signals, Len(res.signals))
            /\ res.reason # ""

\* a neutral signal between two non-neutral ones is left out of the reason
C4_Witness ==
    /\ Regime
    /\ ret.value.signals[2].direction # "neutral"
    /\ ret.value.signals[3].direction = "neutral"
    /\ ret.value.signals[4].direction # "neutral"
    /\ ret.value.reason =
          ret.value.signals[2].detail \o "; " \o ret.value.signals[4].detail

\* the latest stored observation of a symbol, and whether it has a change
Has(sym) == RowsOf(market_snapshots, sym) # {}
Latest(sym) ==
    CHOOSE r \in RowsOf(market_snapshots, sym) :
        \A q \in RowsOf(market_snapshots, sym) : ~TsLess(r.timestamp, q.timestamp)
HasChange(sym) == Has(sym) /\ Latest(sym).change_pct # None

\* C5: an evaluator whose instrument has no observation (or, for the
\* evaluators of the daily percent change, no change) returns neutral; every
\* evaluator returns the verdict it gives on the rows of its own instruments
\* alone, whatever else is missing; on the empty store the result is MIXED
\* with the insufficient-data reason.
C5_MissingInput ==
    Regime =>
        LET res == ret.value
            db == market_snapshots
            own(S) == {r \in db : r.symbol \in S}
        IN  /\ ~Has("SPY") => res.signals[1].direction = "neutral"
            /\ ~HasChange("VIXY") => res.signals[2].direction = "neutral"
            /\ ~Has("BAMLH0A0HYM2") => res.signals[3].direction = "neutral"
            /\ ~HasChange("UUP") => res.signals[4].direction = "neutral"
            /\ (~HasChange("GLD") \/ ~HasChange("SPY")) =>
                  res.signals[5].direction = "neutral"
            /\ res.signals[1] = _eval_spx_trend(own({"SPY"}))
            /\ res.signals[2] = _eval_vix(own({"VIXY"}))
            /\ res.signals[3] = _eval_hy_spread(own({"BAMLH0A0HYM2"}), res.timestamp)
            /\ res.signals[4] = _eval_dxy(own({"UUP"}))
            /\ res.signals[5] = _eval_gold_vs_equities(own({"GLD", "SPY"}))
            /\ db = {} =>
                  /\ res.label = "MIXED"
                  /\ res.reason = "Insufficient data for regime classification"

\* the HY spread is missing and the volatility signal has no change, yet the
\* currency signal gives its verdict
C5_Witness ==
    /\ Regime
    /\ ~Has("BAMLH0A0HYM2")
    /\ Has("VIXY") /\ ~HasChange("VIXY")
    /\ ret.value.signals[3].direction = "neutral"
    /\ ret.value.signals[2].direction = "neutral"
    /\ ret.value.signals[4].direction = "risk_off"

----------------------------------------------------------------------------
(* Properties of the evaluators.                                           *)

HasPrefix(str, prefix) ==
    /\ Len(str) >= Len(prefix)
    /\ \E rest \in {SubSeq(str, Len(prefix) + 1, Len(str))} : str = prefix \o rest

\* the observations of the HY spread at least a week old at the call's clock
HyWeekOld ==
    {r \in RowsOf(market_snapshots, "BAMLH0A0HYM2") :
        \/ r.timestamp.day < ret.value.timestamp.day - HyDaysBack
        \/ /\ r.timestamp.day = ret.value.timestamp.day - HyDaysBack
           /\ r.timestamp.tod <= ret.value.timestamp.tod}
HyWeekAgo == CHOOSE r \in HyWeekOld : \A q \in HyWeekOld : ~TsLess(r.timestamp, q.timestamp)
HyWidening ==
    /\ HyWeekOld # {}
    /\ Latest("BAMLH0A0HYM2").price - HyWeekAgo.price > hy_spread_widening_bps

\* C6: with an observation of the HY spread, the credit-spread signal is
\* risk_off "elevated" when the level is above 5.0, whatever the week-over-week
\* change; else risk_off "widening" when the level rose by more than 10 bps on
\* the observation of a week ago, also below the tight level 3.5; else risk_on
\* when the level is below 3.5, also without a week-old observation; else
\* neutral.
C6_HyPriority ==
    (Regime /\ Has("BAMLH0A0HYM2")) =>
        LET sig == ret.value.signals[3]
            spread == Latest("BAMLH0A0HYM2").price
        IN  IF spread > hy_spread_risk_off
            THEN sig.direction = "risk_off" /\ HasPrefix(sig.detail, "HY spread elevated")
            ELSE IF HyWidening
            THEN sig.direction = "risk_off" /\ HasPrefix(sig.detail, "HY spreads widening")
            ELSE IF spread < hy_spread_risk_on
            THEN sig.direction = "risk_on"
            ELSE sig.direction = "neutral"

\* a tight spread that widened by more than 10 bps in the week is risk_off
C6_Witness ==
    /\ Regime
    /\ Has("BAMLH0A0HYM2")
    /\ Latest("BAMLH0A0HYM2").price < hy_spread_risk_on
    /\ HyWidening
    /\ ret.value.signals[3].direction = "risk_off"

\* C7 as stated: with the latest price and the moving average both available,
\* the trend signal is risk_on exactly when the price is above the average and
\* risk_off exactly when it is below; without the average it is neutral.
C7_TrendStrict ==
    (Regime /\ Has("SPY")) =>
        LET sig == ret.value.signals[1]
            price == Latest("SPY").price
            sma == _compute_sma(market_snapshots, "SPY", spx_ma_period)
        IN  IF sma = None THEN sig.direction = "neutral"
            ELSE /\ sig.direction = "risk_on" <=> price * Get(sma).den > Get(sma).num
                 /\ sig.direction = "risk_off" <=> price * Get(sma).den < Get(sma).num

\* the calendar days with a snapshot of SPY, and the close of such a day
SpyDays == {DayOf(r.timestamp) : r \in RowsOf(market_snapshots, "SPY")}
SpyClose(d) ==
    LET day_rows == {r \in RowsOf(market_snapshots, "SPY") : DayOf(r.timestamp) = d}
    IN  (CHOOSE r \in day_rows : \A q \in day_rows : q.timestamp.tod <= r.timestamp.tod).price
RecentSpyDays(n) == {d \in SpyDays : Cardinality({e \in SpyDays : e > d}) < n}

RECURSIVE SumCloses(_)
SumCloses(days) ==
    IF days = {} THEN 0
    ELSE LET d == CHOOSE e \in days : TRUE IN SpyClose(d) + SumCloses(days \ {d})

\* C8 as stated: _compute_sma with window N returns the mean of the N most
\* recent daily closes whenever snapshots exist on at least N calendar days,
\* and None only when they exist on fewer.
C8_SmaOfDailyCloses ==
    ret.op = "_compute_sma" =>
        IF Cardinality(SpyDays) >= spx_ma_period
        THEN /\ ret.value # None
             /\ Get(ret.value).num * spx_ma_period
                    = SumCloses(RecentSpyDays(spx_ma_period)) * Get(ret.value).den
        ELSE ret.value = None

----------------------------------------------------------------------------
(* Properties of the Pearson coefficient.                                  *)

\* the first n values of a series are all the same: their variance is zero
Constant(values, n) == \A i, j \in 1..n : values[i] = values[j]

\* C10 as stated: _pearson_r returns None exactly when the shorter series has
\* fewer than min_data_points values or one of the two series, cut to that
\* length, has zero variance.
C10_UndefinedExactly ==
    ret.op = "_pearson_r" =>
        LET n == Min(Len(xs), Len(ys))
        IN  ret.value = None <=>
                (n < min_data_points \/ Constant(xs, n) \/ Constant(ys, n))

\* C11: _pearson_r is symmetric.  For all series xs and ys, of equal or of
\* different lengths, _pearson_r(xs, ys) is None exactly when _pearson_r(ys, xs)
\* is None, and otherwise the two coefficients are equal.
C11_Symmetric ==
    ret.op = "_pearson_r" =>
        LET swapped == _pearson_r(ys, xs)
        IN  /\ ret.value = None <=> swapped = None
            /\ ret.value # None =>
                    Coefficient(Get(ret.value)) = Coefficient(Get(swapped))

\* a coefficient of two different series of different lengths
C11_Witness ==
    /\ ret.op = "_pearson_r"
    /\ ret.value # None
    /\ Len(xs) # Len(ys)
    /\ \E i \in 1..Min(Len(xs), Len(ys)) : xs[i] # ys[i]
    /\ Get(ret.value).var_x # Get(ret.value).var_y

\* ys is a linear function of xs with a slope of the sign sgn, on the first n
LinearFunction(n, sgn) ==
    \E a \in 1..2 : \E b \in -8..8 :
        \A i \in 1..n : ys[i] = sgn * a * xs[i] + b

\* C12 as stated: a coefficient that is not None lies in [-1, 1], that is, the
\* square of cov is at most the product of the variances; it is 1 when ys is a
\* positive linear function of xs and -1 when it is a negative one.
C12_Bounded ==
    (ret.op = "_pearson_r" /\ ret.value # None) =>
        LET r == Coefficient(Get(ret.value))
            n == Min(Len(xs), Len(ys))
        IN  /\ r.cov * r.cov <= r.radicand
            /\ LinearFunction(n, 1) => (r.cov > 0 /\ r.cov * r.cov = r.radicand)
            /\ LinearFunction(n, -1) => (r.cov < 0 /\ r.cov * r.cov = r.radicand)

----------------------------------------------------------------------------
(* correlations.py: pairs of symbols.                                      *)

\* The characters of the symbols in the order of their code points; str <= str
\* compares two strings character by character in that order, a proper prefix
\* being the smaller.
CodePoints == "/0123456789ABCDEFGHIJKLMNOPQRSTUVWXYZ_"
Ord(c) == CHOOSE i \in 1..Len(CodePoints) : SubSeq(CodePoints, i, i) = c

RECURSIVE StrLeq(_, _)
StrLeq(a, b) ==
    IF a = "" THEN TRUE
    ELSE IF b = "" THEN FALSE
    ELSE LET ca == Ord(SubSeq(a, 1, 1))
             cb == Ord(SubSeq(b, 1, 1))
         IN  IF ca # cb THEN ca < cb
             ELSE StrLeq(SubSeq(a, 2, Len(a)), SubSeq(b, 2, Len(b)))

\* _normalize_pair ordering the two symbols by their lengths
_normalize_pair_by_length(a, b) == IF Len(a) <= Len(b) THEN <<a, b>> ELSE <<b, a>>

_normalize_pair(a, b) == IF StrLeq(a, b) THEN <<a, b>> ELSE <<b, a>>

\* config.py: the keys of ASSETS and of FRED_SERIES, and the synthetic spread
_all_symbols ==
    <<"SPX", "NDX", "IWM", "VIXY", "EWJ", "UKX", "FEZ", "EWH", "UUP",
      "WTI", "NG", "XAU", "CPER", "URA", "LIT", "REMX", "BTC/USD", "ETH/USD",
      "DGS2", "DGS10", "BAMLC0A0CM", "BAMLH0A0HYM2", "SPREAD_2S10S">>

_SCARCITY_SYMBOLS == <<"URA", "LIT", "REMX">>
\* the two indices of the baseline table as the broad-risk symbols
_RISK_SYMBOLS_indices == <<"SPX", "NDX">>
_RISK_SYMBOLS == <<"SPY", "QQQ">>

Range(seq) == {seq[i] : i \in 1..Len(seq)}

\* a direct call of _normalize_pair
call_normalize_pair(symbols) ==
    \E a, b \in symbols :
        /\ ret' = [op |-> "_normalize_pair", a |-> a, b |-> b,
                   value |-> _normalize_pair(a, b)]
        /\ UNCHANGED <<market_snapshots, signals, xs, ys, correlation_inputs, classifier>>

\* pair-key normalization on every symbol the engine names
PairSymbols == Range(_all_symbols) \cup Range(_RISK_SYMBOLS)

NextNormalize == call_normalize_pair(PairSymbols)

SpecNormalize == Init /\ [][NextNormalize]_vars

\* C15: _normalize_pair is order-insensitive and idempotent.  For all symbols a
\* and b, _normalize_pair(a, b) = _normalize_pair(b, a), its first component is
\* not greater than its second in the order of strings, and normalizing the
\* normalized pair returns it unchanged.
C15_NormalizePair ==
    ret.op = "_normalize_pair" =>
        /\ ret.value = _normalize_pair(ret.b, ret.a)
        /\ StrLeq(ret.value[1], ret.value[2])
        /\ {ret.value[1], ret.value[2]} = {ret.a, ret.b}
        /\ _normalize_pair(ret.value[1], ret.value[2]) = ret.value

\* a pair handed over in the wrong order, the smaller symbol being the longer
C15_Witness ==
    /\ ret.op = "_normalize_pair"
    /\ ret.value = <<ret.b, ret.a>>
    /\ ret.a # ret.b
    /\ Len(ret.b) > Len(ret.a)

----------------------------------------------------------------------------
(* correlations.py: the correlation matrix.  A dict is the sequence of its *)
(* items <<key, value>> in insertion order; a date is the number of its    *)
(* day; a correlation is in units of 0.0001, the step of round(r, 4).      *)

Keys(d) == {d[i][1] : i \in 1..Len(d)}

\* d[key]
Lookup(d, key) == d[CHOOSE i \in 1..Len(d) : d[i][1] = key][2]

\* d.get(key)
DictGet(d, key) == IF key \in Keys(d) THEN Some(Lookup(d, key)) ELSE None

\* sorted(strings): a set of distinct strings as the list in the order of str
RECURSIVE Sorted(_)
Sorted(strings) ==
    IF strings = {} THEN <<>>
    ELSE LET first == CHOOSE a \in strings : \A b \in strings : StrLeq(a, b)
         IN  <<first>> \o Sorted(strings \ {first})

\* dict(returns_b): the value of the last entry of each date
AsDict(returns) ==
    [date \in {returns[i][1] : i \in 1..Len(returns)} |->
        LET last == CHOOSE i \in 1..Len(returns) :
                        /\ returns[i][1] = date
                        /\ \A j \in (i + 1)..Len(returns) : returns[j][1] # date
        IN  returns[last][2]]

_align_returns(returns_a, returns_b) ==
    LET map_b == AsDict(returns_b)
        shared == SelectSeq(returns_a, LAMBDA entry : entry[1] \in DOMAIN map_b)
    IN  [xs |-> [i \in 1..Len(shared) |-> shared[i][2]],
         ys |-> [i \in 1..Len(shared) |-> map_b[shared[i][1]]]]

\* the largest s in lo..hi with s * s <= n
RECURSIVE ISqrtIn(_, _, _)
ISqrtIn(n, lo, hi) ==
    IF lo = hi THEN lo
    ELSE LET mid == (lo + hi + 1) \div 2
         IN  IF mid * mid <= n THEN ISqrtIn(n, mid, hi) ELSE ISqrtIn(n, lo, mid - 1)

\* round(r, 4) of r = cov / radicand ** 0.5, in units of 0.0001: the integer k
\* with (2k - 1)^2 <= 4 * 10^8 * cov^2 / radicand < (2k + 1)^2, with the sign
\* of cov
Round4(r) ==
    LET c2 == r.cov * r.cov
        q1 == (c2 * 10000) \div r.radicand
        r1 == (c2 * 10000) % r.radicand
        x == 40000 * q1 + (40000 * r1) \div r.radicand
        k == (ISqrtIn(x, 0, 46340) + 1) \div 2
    IN  IF r.cov < 0 THEN -k ELSE k

PairCorrelation(a, b, r, n) ==
    [symbol_a |-> a, symbol_b |-> b, correlation |-> r, data_points |-> n]

\* for i, sym_a in enumerate(symbols): for sym_b in symbols[i + 1:]
RECURSIVE LaterPairs(_)
LaterPairs(symbols) ==
    IF Len(symbols) < 2 THEN <<>>
    ELSE [j \in 1..(Len(symbols) - 1) |-> <<symbols[1], symbols[j + 1]>>]
            \o LaterPairs(Tail(symbols))

\* _compute_correlation_matrix with an entry for every pair, 0 when r is None
_compute_correlation_matrix_zero_filled(rbs) ==
    LET symbols == Sorted(Keys(rbs))
        aligned(pair) == _align_returns(Lookup(rbs, pair[1]), Lookup(rbs, pair[2]))
        r(pair) == _pearson_r(aligned(pair).xs, aligned(pair).ys)
        pairs == LaterPairs(symbols)
    IN  [i \in 1..Len(pairs) |->
            LET pair_key == _normalize_pair(pairs[i][1], pairs[i][2])
            IN  <<pair_key,
                  PairCorrelation(pair_key[1], pair_key[2],
                      IF r(pairs[i]) = None THEN 0
                      ELSE Round4(Coefficient(Get(r(pairs[i])))),
                      Min(Len(aligned(pairs[i]).xs), Len(aligned(pairs[i]).ys)))>>]

_compute_correlation_matrix(rbs) ==
    LET symbols == Sorted(Keys(rbs))
        aligned(pair) == _align_returns(Lookup(rbs, pair[1]), Lookup(rbs, pair[2]))
        r(pair) == _pearson_r(aligned(pair).xs, aligned(pair).ys)
        pairs == SelectSeq(LaterPairs(symbols), LAMBDA pair : r(pair) # None)
    IN  [i \in 1..Len(pairs) |->
            LET pair_key == _normalize_pair(pairs[i][1], pairs[i][2])
            IN  <<pair_key,
                  PairCorrelation(pair_key[1], pair_key[2],
                      Round4(Coefficient(Get(r(pairs[i])))),
                      Min(Len(aligned(pairs[i]).xs), Len(aligned(pairs[i]).ys)))>>]

\* a direct call of _compute_correlation_matrix on returns_by_symbol
call_compute_correlation_matrix ==
    /\ ret' = [op |-> "_compute_correlation_matrix",
               value |-> _compute_correlation_matrix(returns_by_symbol)]
    /\ UNCHANGED <<market_snapshots, signals, xs, ys, correlation_inputs, classifier>>

\* Return series: the returns of the days 1..MaxDates, one of the first days
\* possibly missing (0: none), the values following one of three courses.
ReturnDates == 1..MaxDates
MissingDates == 0..2
ReturnCourses == {"flat", "alternating", "step"}
ReturnOn(course, date) ==
    CASE course = "flat" -> 4
      [] course = "alternating" -> IF date % 2 = 1 THEN 1 ELSE 4
      [] course = "step" -> IF date <= 3 THEN 1 ELSE 4
      [] course = "falling" -> IF date % 2 = 1 THEN 1 ELSE -4

\* the returns of one symbol, oldest first
ReturnSeries(course, missing) ==
    LET dates == SelectSeq([d \in ReturnDates |-> d], LAMBDA d : d # missing)
    IN  [i \in 1..Len(dates) |-> <<dates[i], ReturnOn(course, dates[i])>>]

AllReturnSeries ==
    {ReturnSeries(course, missing) : course \in ReturnCourses,
                                     missing \in MissingDates}

MatrixSymbols == {"URA", "SPX", "NDX"}

\* the dicts over the symbols of S, in any order of insertion
DictsOver(S, values) ==
    {d \in [1..Cardinality(S) -> S \X values] :
        \A i, j \in 1..Cardinality(S) : i # j => d[i][1] # d[j][1]}

InitMatrix ==
    /\ market_snapshots = {}
    /\ signals = <<>>
    /\ xs = <<>>
    /\ ys = <<>>
    /\ ret = NoCall
    /\ returns_by_symbol \in
            UNION {DictsOver(S, AllReturnSeries) : S \in SUBSET MatrixSymbols}
    /\ pair_correlations = <<>>
    /\ snapshots = <<>>
    /\ daily_close_series = <<>>
    /\ classifier = NotRunning

NextMatrix == call_compute_correlation_matrix

SpecMatrix == InitMatrix /\ [][NextMatrix]_vars

\* the dates two symbols of returns_by_symbol share, and their returns on
\* these dates, oldest first
DatesOf(sym) ==
    LET returns == Lookup(returns_by_symbol, sym)
    IN  {returns[i][1] : i \in 1..Len(returns)}
SharedDates(a, b) == DatesOf(a) \cap DatesOf(b)
ReturnAt(sym, date) ==
    LET returns == Lookup(returns_by_symbol, sym)
    IN  returns[CHOOSE i \in 1..Len(returns) : returns[i][1] = date][2]
RECURSIVE Ascending(_)
Ascending(dates) ==
    IF dates = {} THEN <<>>
    ELSE LET first == CHOOSE d \in dates : \A other \in dates : d <= other
         IN  <<first>> \o Ascending(dates \ {first})
SharedReturns(sym, other) ==
    LET dates == Ascending(SharedDates(sym, other))
    IN  [i \in 1..Len(dates) |-> ReturnAt(sym, dates[i])]
Correlated(a, b) == _pearson_r(SharedReturns(a, b), SharedReturns(b, a)) # None

\* C13: the matrix has an entry for an unordered pair of distinct symbols of
\* returns_by_symbol exactly when _pearson_r of their date-aligned returns is
\* not None; every entry is keyed by the pair in canonical order and carries
\* these two symbols, a number as correlation and the number of shared dates
\* as data_points; no two entries belong to the same unordered pair.
C13_MatrixEntries ==
    ret.op = "_compute_correlation_matrix" =>
        LET matrix == ret.value
            universe == Keys(returns_by_symbol)
        IN  /\ \A a, b \in universe :
                    a # b => ((\E i \in 1..Len(matrix) : matrix[i][1] \in {<<a, b>>, <<b, a>>})
                                <=> Correlated(a, b))
            /\ \A i \in 1..Len(matrix) :
                    LET key == matrix[i][1]
                        pc == matrix[i][2]
                    IN  /\ key[1] \in universe /\ key[2] \in universe
                        /\ key[1] # key[2]
                        /\ StrLeq(key[1], key[2])
                        /\ pc.symbol_a = key[1] /\ pc.symbol_b = key[2]
                        /\ pc.correlation \in Int
                        /\ Correlated(key[1], key[2])
                        /\ pc.data_points = Cardinality(SharedDates(key[1], key[2]))
            /\ \A i, j \in 1..Len(matrix) :
                    i # j => {matrix[i][1][1], matrix[i][1][2]}
                                # {matrix[j][1][1], matrix[j][1][2]}

\* a matrix of three symbols with an entry for one pair, none for a pair with
\* too few shared dates and none for a pair with a series of zero variance
C13_Witness ==
    /\ ret.op = "_compute_correlation_matrix"
    /\ Len(ret.value) = 1
    /\ Keys(returns_by_symbol) = MatrixSymbols
    /\ \E a, b \in MatrixSymbols :
            /\ a # b
            /\ Cardinality(SharedDates(a, b)) < min_data_points
    /\ \E a, b \in MatrixSymbols :
            /\ a # b
            /\ Cardinality(SharedDates(a, b)) >= min_data_points
            /\ ~Correlated(a, b)

----------------------------------------------------------------------------
(* config.py: the correlation settings.  Correlations are in units of      *)
(* 0.0001, percent changes in tenths of a percent.                         *)
anomaly_deviation_threshold == 4000     \* 0.4
comovement_magnitude_band == 15         \* 1.5 points
comovement_min_change_pct == 3          \* 0.3 %
diverging_baseline_threshold == 5000    \* 0.5
correlation_threshold == 7000           \* 0.7

BASELINE_CORRELATIONS ==
    << <<<<"NDX", "SPX">>, 9000>>, <<<<"IWM", "SPX">>, 8500>>,
       <<<<"IWM", "NDX">>, 8000>>, <<<<"FEZ", "UKX">>, 8500>>,
       <<<<"SPX", "VIXY">>, -8000>>,
       <<<<"BTC/USD", "NDX">>, 1500>>, <<<<"BTC/USD", "IWM">>, 1000>>,
       <<<<"BTC/USD", "SPX">>, 1000>>, <<<<"ETH/USD", "SPX">>, 1000>>,
       <<<<"LIT", "NDX">>, 4500>>, <<<<"LIT", "SPX">>, 5000>>,
       <<<<"NDX", "REMX">>, 4000>>, <<<<"NDX", "URA">>, 3500>>,
       <<<<"REMX", "SPX">>, 4500>>, <<<<"SPX", "URA">>, 4000>>,
       <<<<"LIT", "REMX">>, 6500>>, <<<<"LIT", "URA">>, 5500>>,
       <<<<"REMX", "URA">>, 6000>>,
       <<<<"DGS10", "SPX">>, 1500>>, <<<<"SPX", "UUP">>, -2000>>,
       <<<<"SPX", "WTI">>, 3500>>, <<<<"SPX", "XAU">>, -1000>>,
       <<<<"CPER", "SPX">>, 5000>> >>

\* the values of ASSETS' categories and of FRED_SERIES
Labels_ ==
    << <<"SPX", "S&P 500">>, <<"NDX", "Nasdaq 100">>, <<"IWM", "Russell 2000">>,
       <<"VIXY", "VIX (Short-Term Futures)">>, <<"EWJ", "Japan (EWJ)">>,
       <<"UKX", "FTSE 100">>, <<"FEZ", "Euro Stoxx 50 (FEZ)">>,
       <<"EWH", "Hong Kong (EWH)">>, <<"UUP", "US Dollar (UUP)">>,
       <<"WTI", "Crude Oil (WTI)">>, <<"NG", "Natural Gas">>, <<"XAU", "Gold">>,
       <<"CPER", "Copper (CPER)">>, <<"URA", "Uranium ETF">>,
       <<"LIT", "Lithium ETF">>, <<"REMX", "Rare Earths ETF">>,
       <<"BTC/USD", "Bitcoin">>, <<"ETH/USD", "Ethereum">>,
       <<"DGS2", "2-Year Treasury Yield">>, <<"DGS10", "10-Year Treasury Yield">>,
       <<"BAMLC0A0CM", "IG Corporate Bond Spread">>,
       <<"BAMLH0A0HYM2", "HY Corporate Bond Spread">> >>

_label(symbol) == IF symbol \in Keys(Labels_) THEN Lookup(Labels_, symbol) ELSE symbol

\* f"{r:.2f}" of a correlation: the nearest number of hundredths (a tie, which
\* the double of r decides, going to the even one)
FmtCorrelation(r) ==
    LET a == Abs(r)
        q == a \div 100
        rest == a % 100
        m == IF rest > 50 \/ (rest = 50 /\ q % 2 = 1) THEN q + 1 ELSE q
    IN  (IF r < 0 THEN "-" ELSE "") \o Fmt2(m)

----------------------------------------------------------------------------
(* correlations.py: the multi-day anomaly detectors.                       *)
CorrelationAnomaly(type, symbols, expected, actual, detail) ==
    [anomaly_type |-> type, symbols |-> symbols, expected |-> expected,
     actual |-> actual, detail |-> detail]

_detect_unexpected_convergence(pcs) ==
    LET threshold == anomaly_deviation_threshold
        expected(item) == DictGet(BASELINE_CORRELATIONS, item[1])
        flagged == SelectSeq(pcs, LAMBDA item :
                        /\ expected(item) # None
                        /\ Abs(Get(expected(item))) < 3000
                        /\ item[2].correlation > Get(expected(item)) + threshold)
    IN  [i \in 1..Len(flagged) |->
            LET pair_key == flagged[i][1]
                pc == flagged[i][2]
            IN  CorrelationAnomaly("unexpected_convergence", pair_key,
                    Get(expected(flagged[i])), pc.correlation,
                    _label(pair_key[1]) \o " and " \o _label(pair_key[2])
                        \o " are unusually correlated (r="
                        \o FmtCorrelation(pc.correlation) \o ", normally ~"
                        \o FmtCorrelation(Get(expected(flagged[i]))) \o ")")]

\* _detect_broken_correlations for every baseline pair, strong or not
_detect_broken_correlations_any_baseline(pcs) ==
    LET threshold == anomaly_deviation_threshold
        expected(item) == DictGet(BASELINE_CORRELATIONS, item[1])
        flagged == SelectSeq(pcs, LAMBDA item :
                        /\ expected(item) # None
                        /\ Abs(item[2].correlation - Get(expected(item))) > threshold)
    IN  [i \in 1..Len(flagged) |->
            LET pair_key == flagged[i][1]
                pc == flagged[i][2]
            IN  CorrelationAnomaly("broken_correlation", pair_key,
                    Get(expected(flagged[i])), pc.correlation,
                    _label(pair_key[1]) \o " and " \o _label(pair_key[2])
                        \o " correlation has shifted (r="
                        \o FmtCorrelation(pc.correlation) \o ", normally ~"
                        \o FmtCorrelation(Get(expected(flagged[i]))) \o ")")]

_detect_broken_correlations(pcs) ==
    LET threshold == anomaly_deviation_threshold
        expected(item) == DictGet(BASELINE_CORRELATIONS, item[1])
        flagged == SelectSeq(pcs, LAMBDA item :
                        /\ expected(item) # None
                        /\ Abs(item[2].correlation - Get(expected(item))) > threshold
                        /\ Abs(Get(expected(item))) >= 5000)
    IN  [i \in 1..Len(flagged) |->
            LET pair_key == flagged[i][1]
                pc == flagged[i][2]
            IN  CorrelationAnomaly("broken_correlation", pair_key,
                    Get(expected(flagged[i])), pc.correlation,
                    _label(pair_key[1]) \o " and " \o _label(pair_key[2])
                        \o " correlation has shifted (r="
                        \o FmtCorrelation(pc.correlation) \o ", normally ~"
                        \o FmtCorrelation(Get(expected(flagged[i]))) \o ")")]

\* for scarcity in _SCARCITY_SYMBOLS: for risk in _RISK_SYMBOLS
ScarcityPairs ==
    [k \in 1..(Len(_SCARCITY_SYMBOLS) * Len(_RISK_SYMBOLS)) |->
        <<_SCARCITY_SYMBOLS[((k - 1) \div Len(_RISK_SYMBOLS)) + 1],
          _RISK_SYMBOLS[((k - 1) % Len(_RISK_SYMBOLS)) + 1]>>]

_detect_scarcity_divergence(pcs) ==
    LET threshold == anomaly_deviation_threshold
        pair_key(pair) == _normalize_pair(pair[1], pair[2])
        pc(pair) == DictGet(pcs, pair_key(pair))
        expected(pair) == DictGet(BASELINE_CORRELATIONS, pair_key(pair))
        flagged == SelectSeq(ScarcityPairs, LAMBDA pair :
                        /\ pc(pair) # None
                        /\ expected(pair) # None
                        /\ Get(pc(pair)).correlation < Get(expected(pair)) - threshold)
    IN  [i \in 1..Len(flagged) |->
            LET scarcity == flagged[i][1]
                risk == flagged[i][2]
            IN  CorrelationAnomaly("scarcity_divergence", <<scarcity, risk>>,
                    Get(expected(flagged[i])), Get(pc(flagged[i])).correlation,
                    _label(scarcity) \o " is diverging from " \o _label(risk)
                        \o " (r=" \o FmtCorrelation(Get(pc(flagged[i])).correlation)
                        \o ", normally ~"
                        \o FmtCorrelation(Get(expected(flagged[i]))) \o ")")]

\* direct calls of the three detectors on pair_correlations
call_detect_unexpected_convergence ==
    /\ ret' = [op |-> "_detect_unexpected_convergence",
               value |-> _detect_unexpected_convergence(pair_correlations)]
    /\ UNCHANGED <<market_snapshots, signals, xs, ys, correlation_inputs, classifier>>

call_detect_broken_correlations ==
    /\ ret' = [op |-> "_detect_broken_correlations",
               value |-> _detect_broken_correlations(pair_correlations)]
    /\ UNCHANGED <<market_snapshots, signals, xs, ys, correlation_inputs, classifier>>

call_detect_scarcity_divergence ==
    /\ ret' = [op |-> "_detect_scarcity_divergence",
               value |-> _detect_scarcity_divergence(pair_correlations)]
    /\ UNCHANGED <<market_snapshots, signals, xs, ys, correlation_inputs, classifier>>

\* Correlation matrices: entries in the order of their keys, as
\* _compute_correlation_matrix inserts them, for at most MaxPairs of the pairs
\* below.
DetectorPairs ==
    << <<"BTC/USD", "SPX">>, <<"LIT", "SPX">>, <<"NDX", "SPX">>,
       <<"QQQ", "URA">>, <<"SPX", "URA">>, <<"SPX", "VIXY">> >>
DetectorCorrelations == {-9000, -3999, 4999, 5001, 9500}
DetectorDataPoints == 20

Matrices ==
    UNION {
        {[i \in 1..Len(keys) |->
            <<keys[i], PairCorrelation(keys[i][1], keys[i][2], r[i], DetectorDataPoints)>>]
         : r \in [1..Len(keys) -> DetectorCorrelations]}
        : keys \in {SelectSeq(DetectorPairs, LAMBDA key : key \in chosen)
                    : chosen \in {c \in SUBSET Range(DetectorPairs)
                                    : Cardinality(c) <= MaxPairs}}}

InitDetectors ==
    /\ market_snapshots = {}
    /\ signals = <<>>
    /\ xs = <<>>
    /\ ys = <<>>
    /\ ret = NoCall
    /\ returns_by_symbol = <<>>
    /\ pair_correlations \in Matrices
    /\ snapshots = <<>>
    /\ daily_close_series = <<>>
    /\ classifier = NotRunning

NextDetectors ==
    \/ call_detect_unexpected_convergence
    \/ call_detect_broken_correlations
    \/ call_detect_scarcity_divergence

SpecDetectors == InitDetectors /\ [][NextDetectors]_vars

----------------------------------------------------------------------------
(* Properties of the multi-day detectors.                                  *)

\* the pairs a detector may be asked about
CandidatePairs == Range(DetectorPairs) \cup Keys(BASELINE_CORRELATIONS)

\* the anomalies of one kind that name the two symbols of key, in any order
Flagged(anomalies, kind, key) ==
    \E i \in 1..Len(anomalies) :
        /\ anomalies[i].anomaly_type = kind
        /\ anomalies[i].symbols \in {key, <<key[2], key[1]>>}

InBaseline(key) == key \in Keys(BASELINE_CORRELATIONS)
Baseline(key) == Lookup(BASELINE_CORRELATIONS, key)
InMatrix(key) == key \in Keys(pair_correlations)
Correlation(key) == Lookup(pair_correlations, key).correlation

\* the instruments that stand for broad equity risk: the two indices of the
\* baseline table and the two funds of _RISK_SYMBOLS
BroadRisk == {"SPX", "NDX", "SPY", "QQQ"}

\* C17 as stated: for each scarcity instrument and each broad-risk instrument
\* whose pair has a baseline, _detect_scarcity_divergence emits a
\* scarcity_divergence anomaly for the pair exactly when the pair is in the
\* matrix with a correlation below baseline - anomaly_deviation_threshold.
C17_ScarcityDivergence ==
    ret.op = "_detect_scarcity_divergence" =>
        \A scarcity \in Range(_SCARCITY_SYMBOLS) : \A risk \in BroadRisk :
            \A key \in {<<scarcity, risk>>, <<risk, scarcity>>} :
                InBaseline(key) =>
                    (Flagged(ret.value, "scarcity_divergence", key)
                        <=> (/\ InMatrix(key)
                             /\ Correlation(key) < Baseline(key) - anomaly_deviation_threshold))

----------------------------------------------------------------------------
(* correlations.py: the single-day detectors and the single-day grouping.  *)
(* snapshots is the dict of _get_all_latest_snapshots: one row per symbol, *)
(* of which the engine reads change_pct.                                   *)

\* the concatenation of a list of lists
RECURSIVE Concat(_)
Concat(lists) == IF lists = <<>> THEN <<>> ELSE Head(lists) \o Concat(Tail(lists))

\* snapshots.get(sym) and then snap.get("change_pct")
ChangePct(snaps, sym) ==
    IF DictGet(snaps, sym) = None THEN None ELSE Lookup(snaps, sym).change_pct

same_direction(pct_a, pct_b) == (pct_a > 0 /\ pct_b > 0) \/ (pct_a < 0 /\ pct_b < 0)

\* _detect_1d_anomalies skipping a pair unless both changes reach min_change
_detect_1d_anomalies_both_required(snaps) ==
    LET min_change == comovement_min_change_pct
        OfPair(item) ==
            LET sym_a == item[1][1]
                sym_b == item[1][2]
                expected == item[2]
                a == ChangePct(snaps, sym_a)
                b == ChangePct(snaps, sym_b)
            IN  IF a = None \/ b = None THEN <<>>
                ELSE
                LET pct_a == Get(a)
                    pct_b == Get(b)
                    same == same_direction(pct_a, pct_b)
                IN  IF Abs(pct_a) < min_change \/ Abs(pct_b) < min_change THEN <<>>
                    ELSE
                    (IF expected < -5000 /\ same
                     THEN <<CorrelationAnomaly("broken_correlation", <<sym_a, sym_b>>,
                                expected, 0,
                                _label(sym_a) \o " and " \o _label(sym_b)
                                    \o " moving in the same direction today ("
                                    \o Fmt1Signed(pct_a) \o "% and "
                                    \o Fmt1Signed(pct_b) \o "%)")>>
                     ELSE <<>>)
                    \o
                    (IF /\ Abs(expected) < 3000
                        /\ same
                        /\ Abs(pct_a) >= min_change
                        /\ Abs(pct_b) >= min_change
                     THEN <<CorrelationAnomaly("unexpected_convergence", <<sym_a, sym_b>>,
                                expected, 0,
                                _label(sym_a) \o " and " \o _label(sym_b)
                                    \o " moving together today ("
                                    \o Fmt1Signed(pct_a) \o "% and "
                                    \o Fmt1Signed(pct_b) \o "%)")>>
                     ELSE <<>>)
                    \o
                    (IF /\ expected > 5000
                        /\ ~same
                        /\ Abs(pct_a) >= min_change
                        /\ Abs(pct_b) >= min_change
                     THEN <<CorrelationAnomaly("broken_correlation", <<sym_a, sym_b>>,
                                expected, 0,
                                _label(sym_a) \o " and " \o _label(sym_b)
                                    \o " moving in opposite directions today ("
                                    \o Fmt1Signed(pct_a) \o "% vs "
                                    \o Fmt1Signed(pct_b) \o "%)")>>
                     ELSE <<>>)
    IN  Concat([i \in 1..Len(BASELINE_CORRELATIONS) |-> OfPair(BASELINE_CORRELATIONS[i])])

_detect_1d_anomalies(snaps) ==
    LET min_change == comovement_min_change_pct
        OfPair(item) ==
            LET sym_a == item[1][1]
                sym_b == item[1][2]
                expected == item[2]
                a == ChangePct(snaps, sym_a)
                b == ChangePct(snaps, sym_b)
            IN  IF a = None \/ b = None THEN <<>>
                ELSE
                LET pct_a == Get(a)
                    pct_b == Get(b)
                    same == same_direction(pct_a, pct_b)
                IN  IF Abs(pct_a) < min_change /\ Abs(pct_b) < min_change THEN <<>>
                    ELSE
                    (IF expected < -5000 /\ same
                     THEN <<CorrelationAnomaly("broken_correlation", <<sym_a, sym_b>>,
                                expected, 0,
                                _label(sym_a) \o " and " \o _label(sym_b)
                                    \o " moving in the same direction today ("
                                    \o Fmt1Signed(pct_a) \o "% and "
                                    \o Fmt1Signed(pct_b) \o "%)")>>
                     ELSE <<>>)
                    \o
                    (IF /\ Abs(expected) < 3000
                        /\ same
                        /\ Abs(pct_a) >= min_change
                        /\ Abs(pct_b) >= min_change
                     THEN <<CorrelationAnomaly("unexpected_convergence", <<sym_a, sym_b>>,
                                expected, 0,
                                _label(sym_a) \o " and " \o _label(sym_b)
                                    \o " moving together today ("
                                    \o Fmt1Signed(pct_a) \o "% and "
                                    \o Fmt1Signed(pct_b) \o "%)")>>
                     ELSE <<>>)
                    \o
                    (IF /\ expected > 5000
                        /\ ~same
                        /\ Abs(pct_a) >= min_change
                        /\ Abs(pct_b) >= min_change
                     THEN <<CorrelationAnomaly("broken_correlation", <<sym_a, sym_b>>,
                                expected, 0,
                                _label(sym_a) \o " and " \o _label(sym_b)
                                    \o " moving in opposite directions today ("
                                    \o Fmt1Signed(pct_a) \o "% vs "
                                    \o Fmt1Signed(pct_b) \o "%)")>>
                     ELSE <<>>)
    IN  Concat([i \in 1..Len(BASELINE_CORRELATIONS) |-> OfPair(BASELINE_CORRELATIONS[i])])

DivergingPair(a, b, pct_a, pct_b, expected) ==
    [symbol_a |-> a, symbol_b |-> b, label_a |-> _label(a), label_b |-> _label(b),
     change_pct_a |-> pct_a, change_pct_b |-> pct_b, baseline_r |-> expected]

\* _detect_diverging_pairs skipping a pair only when both changes are below
\* min_change
_detect_diverging_pairs_either_flat(snaps) ==
    LET min_change == comovement_min_change_pct
        threshold == diverging_baseline_threshold
        OfPair(item) ==
            LET sym_a == item[1][1]
                sym_b == item[1][2]
                expected == item[2]
                a == ChangePct(snaps, sym_a)
                b == ChangePct(snaps, sym_b)
            IN  IF expected < threshold THEN <<>>
                ELSE IF a = None \/ b = None THEN <<>>
                ELSE IF Abs(Get(a)) < min_change /\ Abs(Get(b)) < min_change THEN <<>>
                ELSE IF same_direction(Get(a), Get(b)) THEN <<>>
                ELSE <<DivergingPair(sym_a, sym_b, Get(a), Get(b), expected)>>
    IN  Concat([i \in 1..Len(BASELINE_CORRELATIONS) |-> OfPair(BASELINE_CORRELATIONS[i])])

_detect_diverging_pairs(snaps) ==
    LET min_change == comovement_min_change_pct
        threshold == diverging_baseline_threshold
        OfPair(item) ==
            LET sym_a == item[1][1]
                sym_b == item[1][2]
                expected == item[2]
                a == ChangePct(snaps, sym_a)
                b == ChangePct(snaps, sym_b)
            IN  IF expected < threshold THEN <<>>
                ELSE IF a = None \/ b = None THEN <<>>
                ELSE IF Abs(Get(a)) < min_change \/ Abs(Get(b)) < min_change THEN <<>>
                ELSE IF same_direction(Get(a), Get(b)) THEN <<>>
                ELSE <<DivergingPair(sym_a, sym_b, Get(a), Get(b), expected)>>
    IN  Concat([i \in 1..Len(BASELINE_CORRELATIONS) |-> OfPair(BASELINE_CORRELATIONS[i])])

\* direct calls of the two detectors on snapshots
call_detect_1d_anomalies ==
    /\ ret' = [op |-> "_detect_1d_anomalies", value |-> _detect_1d_anomalies(snapshots)]
    /\ UNCHANGED <<market_snapshots, signals, xs, ys, correlation_inputs, classifier>>

call_detect_diverging_pairs ==
    /\ ret' = [op |-> "_detect_diverging_pairs",
               value |-> _detect_diverging_pairs(snapshots)]
    /\ UNCHANGED <<market_snapshots, signals, xs, ys, correlation_inputs, classifier>>

\* Latest snapshots of at most MaxSnapshots of the symbols below, with a
\* change on either side of comovement_min_change_pct or without one.
SnapshotSymbols == <<"BTC/USD", "EWJ", "LIT", "NDX", "SPX", "VIXY">>
SnapshotChanges == {None, Some(-20), Some(2), Some(3), Some(20)}

AllSnapshots ==
    UNION {
        {[i \in 1..Len(keys) |-> <<keys[i], [change_pct |-> c[i]]>>]
         : c \in [1..Len(keys) -> SnapshotChanges]}
        : keys \in {SelectSeq(SnapshotSymbols, LAMBDA sym : sym \in chosen)
                    : chosen \in {c \in SUBSET Range(SnapshotSymbols)
                                    : Cardinality(c) <= MaxSnapshots}}}

InitSingleDay ==
    /\ market_snapshots = {}
    /\ signals = <<>>
    /\ xs = <<>>
    /\ ys = <<>>
    /\ ret = NoCall
    /\ returns_by_symbol = <<>>
    /\ pair_correlations = <<>>
    /\ snapshots \in AllSnapshots
    /\ daily_close_series = <<>>
    /\ classifier = NotRunning

CoMovingGroup(direction, avg, symbols) ==
    [direction |-> direction, avg_change_pct |-> avg, symbols |-> symbols,
     labels |-> [i \in 1..Len(symbols) |-> _label(symbols[i])]]

\* assets.sort(key=lambda x: abs(x[1]), reverse=True): a stable sort, so of
\* the assets of the greatest magnitude the first comes first
RECURSIVE SortByMagnitude(_)
SortByMagnitude(assets) ==
    IF assets = <<>> THEN <<>>
    ELSE LET k == CHOOSE i \in 1..Len(assets) :
                    /\ \A j \in 1..Len(assets) : Abs(assets[j][2]) <= Abs(assets[i][2])
                    /\ \A j \in 1..(i - 1) : Abs(assets[j][2]) < Abs(assets[i][2])
         IN  <<assets[k]>> \o SortByMagnitude(SubSeq(assets, 1, k - 1)
                                              \o SubSeq(assets, k + 1, Len(assets)))

\* the bands measured from the first member of the open cluster
RECURSIVE Banded_from_first(_, _)
Banded_from_first(clusters, assets) ==
    IF assets = <<>> THEN clusters
    ELSE LET open == clusters[Len(clusters)]
             pct == Head(assets)[2]
         IN  IF Abs(Abs(pct) - Abs(open[1][2])) <= comovement_magnitude_band
             THEN Banded_from_first([clusters EXCEPT ![Len(clusters)] = Append(open, Head(assets))],
                                    Tail(assets))
             ELSE Banded_from_first(Append(clusters, <<Head(assets)>>), Tail(assets))

\* the loop over assets[1:]: an asset joins the last cluster when it is within
\* the band of that cluster's last member, and opens a new cluster otherwise
RECURSIVE Banded(_, _)
Banded(clusters, assets) ==
    IF assets = <<>> THEN clusters
    ELSE LET open == clusters[Len(clusters)]
             pct == Head(assets)[2]
         IN  IF Abs(Abs(pct) - Abs(open[Len(open)][2])) <= comovement_magnitude_band
             THEN Banded([clusters EXCEPT ![Len(clusters)] = Append(open, Head(assets))],
                         Tail(assets))
             ELSE Banded(Append(clusters, <<Head(assets)>>), Tail(assets))

RECURSIVE SumChanges(_)
SumChanges(cluster) ==
    IF cluster = <<>> THEN 0 ELSE Head(cluster)[2] + SumChanges(Tail(cluster))

\* round(num / den, 2) of a number of tenths, in hundredths: the nearest, a
\* tie going to the even one
RoundAverage(num, den) ==
    LET a == Abs(10 * num)
        q == a \div den
        rest == a % den
        m == IF 2 * rest > den \/ (2 * rest = den /\ q % 2 = 1) THEN q + 1 ELSE q
    IN  IF num < 0 THEN -m ELSE m

\* _group_by_comovement keeping the clusters of one asset
_group_by_comovement_with_singletons(snaps) ==
    LET min_change == comovement_min_change_pct
        moving == SelectSeq(snaps, LAMBDA item : item[2].change_pct # None)
        assets == [i \in 1..Len(moving) |-> <<moving[i][1], Get(moving[i][2].change_pct)>>]
        up == SelectSeq(assets, LAMBDA asset : asset[2] >= min_change)
        down == SelectSeq(assets, LAMBDA asset : asset[2] <= -min_change)
        GroupsOf(direction, side) ==
            IF side = <<>> THEN <<>>
            ELSE LET sorted == SortByMagnitude(side)
                     clusters == Banded(<< <<Head(sorted)>> >>, Tail(sorted))
                 IN  [i \in 1..Len(clusters) |->
                        CoMovingGroup(direction,
                            RoundAverage(SumChanges(clusters[i]), Len(clusters[i])),
                            [j \in 1..Len(clusters[i]) |-> clusters[i][j][1]])]
    IN  GroupsOf("up", up) \o GroupsOf("down", down)

_group_by_comovement(snaps) ==
    LET min_change == comovement_min_change_pct
        moving == SelectSeq(snaps, LAMBDA item : item[2].change_pct # None)
        assets == [i \in 1..Len(moving) |-> <<moving[i][1], Get(moving[i][2].change_pct)>>]
        up == SelectSeq(assets, LAMBDA asset : asset[2] >= min_change)
        down == SelectSeq(assets, LAMBDA asset : asset[2] <= -min_change)
        GroupsOf(direction, side) ==
            IF side = <<>> THEN <<>>
            ELSE LET sorted == SortByMagnitude(side)
                     clusters == SelectSeq(Banded(<< <<Head(sorted)>> >>, Tail(sorted)),
                                           LAMBDA cluster : ~(Len(cluster) < 2))
                 IN  [i \in 1..Len(clusters) |->
                        CoMovingGroup(direction,
                            RoundAverage(SumChanges(clusters[i]), Len(clusters[i])),
                            [j \in 1..Len(clusters[i]) |-> clusters[i][j][1]])]
    IN  GroupsOf("up", up) \o GroupsOf("down", down)

\* the sort by correlation with entries of the same correlation reversed
RECURSIVE SortByCorrelation_ties_reversed(_)
SortByCorrelation_ties_reversed(pairs) ==
    IF pairs = <<>> THEN <<>>
    ELSE LET k == CHOOSE i \in 1..Len(pairs) :
                    /\ \A j \in 1..Len(pairs) :
                            pairs[j][2].correlation <= pairs[i][2].correlation
                    /\ \A j \in (i + 1)..Len(pairs) :
                            pairs[j][2].correlation < pairs[i][2].correlation
         IN  <<pairs[k]>> \o SortByCorrelation_ties_reversed(SubSeq(pairs, 1, k - 1)
                                               \o SubSeq(pairs, k + 1, Len(pairs)))

\* high_pairs.sort(key=correlation, reverse=True): stable
RECURSIVE SortByCorrelation(_)
SortByCorrelation(pairs) ==
    IF pairs = <<>> THEN <<>>
    ELSE LET k == CHOOSE i \in 1..Len(pairs) :
                    /\ \A j \in 1..Len(pairs) :
                            pairs[j][2].correlation <= pairs[i][2].correlation
                    /\ \A j \in 1..(i - 1) :
                            pairs[j][2].correlation < pairs[i][2].correlation
         IN  <<pairs[k]>> \o SortByCorrelation(SubSeq(pairs, 1, k - 1)
                                               \o SubSeq(pairs, k + 1, Len(pairs)))

\* the greedy merge with a pair joining the last group that holds one of its
\* two symbols
RECURSIVE Merged_into_last(_, _)
Merged_into_last(groups, pairs) ==
    IF pairs = <<>> THEN groups
    ELSE LET sym_a == Head(pairs)[1][1]
             sym_b == Head(pairs)[1][2]
             holding == {i \in 1..Len(groups) : sym_a \in groups[i] \/ sym_b \in groups[i]}
         IN  IF holding # {}
             THEN LET last == CHOOSE i \in holding : \A j \in holding : i >= j
                  IN  Merged_into_last([groups EXCEPT ![last] = groups[last] \cup {sym_a, sym_b}],
                                       Tail(pairs))
             ELSE Merged_into_last(Append(groups, {sym_a, sym_b}), Tail(pairs))

\* the greedy merge: a pair joins the first group that holds one of its two
\* symbols, and opens a new group otherwise
RECURSIVE Merged(_, _)
Merged(groups, pairs) ==
    IF pairs = <<>> THEN groups
    ELSE LET sym_a == Head(pairs)[1][1]
             sym_b == Head(pairs)[1][2]
             holding == {i \in 1..Len(groups) : sym_a \in groups[i] \/ sym_b \in groups[i]}
         IN  IF holding # {}
             THEN LET first == CHOOSE i \in holding : \A j \in holding : i <= j
                  IN  Merged([groups EXCEPT ![first] = groups[first] \cup {sym_a, sym_b}],
                             Tail(pairs))
             ELSE Merged(Append(groups, {sym_a, sym_b}), Tail(pairs))

\* avg_return += series[-1][1], from 0.0, over the symbols that have a series
RECURSIVE SumLastReturns(_, _)
SumLastReturns(rbs, syms) ==
    IF syms = <<>> THEN 0
    ELSE LET sym == syms[Len(syms)]
             before == SumLastReturns(rbs, SubSeq(syms, 1, Len(syms) - 1))
             series == DictGet(rbs, sym)
         IN  IF series # None /\ Get(series) # <<>>
             THEN FAdd(before, Get(series)[Len(Get(series))][2])
             ELSE before

\* _group_by_correlation with an average of exactly zero counted as down
_group_by_correlation_tie_down(pcs, rbs, threshold) ==
    LET high_pairs == SortByCorrelation(
                        SelectSeq(pcs, LAMBDA item : item[2].correlation >= threshold))
        groups == SelectSeq(Merged(<<>>, high_pairs),
                            LAMBDA group : ~(Cardinality(group) < 2))
    IN  [i \in 1..Len(groups) |->
            LET syms == Sorted(groups[i])
                count == Cardinality({sym \in groups[i] :
                            DictGet(rbs, sym) # None /\ Get(DictGet(rbs, sym)) # <<>>})
                avg_return == IF count # 0 THEN FDiv(SumLastReturns(rbs, syms), count)
                              ELSE 0
            IN  CoMovingGroup(IF avg_return > 0 THEN "up" ELSE "down", avg_return, syms)]

\* round(avg_return, 2) leaves a float that is a whole number as it is
_group_by_correlation(pcs, rbs, threshold) ==
    LET high_pairs == SortByCorrelation(
                        SelectSeq(pcs, LAMBDA item : item[2].correlation >= threshold))
        groups == SelectSeq(Merged(<<>>, high_pairs),
                            LAMBDA group : ~(Cardinality(group) < 2))
    IN  [i \in 1..Len(groups) |->
            LET syms == Sorted(groups[i])
                count == Cardinality({sym \in groups[i] :
                            DictGet(rbs, sym) # None /\ Get(DictGet(rbs, sym)) # <<>>})
                avg_return == IF count # 0 THEN FDiv(SumLastReturns(rbs, syms), count)
                              ELSE 0
            IN  CoMovingGroup(IF avg_return >= 0 THEN "up" ELSE "down", avg_return, syms)]

\* direct calls of the two grouping functions
call_group_by_comovement ==
    /\ ret' = [op |-> "_group_by_comovement", value |-> _group_by_comovement(snapshots)]
    /\ UNCHANGED <<market_snapshots, signals, xs, ys, correlation_inputs, classifier>>

call_group_by_correlation ==
    /\ ret' = [op |-> "_group_by_correlation",
               value |-> _group_by_correlation(pair_correlations, returns_by_symbol,
                                               correlation_threshold)]
    /\ UNCHANGED <<market_snapshots, signals, xs, ys, correlation_inputs, classifier>>

\* the single-day mode of detect_correlations on the latest snapshots
NextSingleDay ==
    \/ call_group_by_comovement
    \/ call_detect_1d_anomalies
    \/ call_detect_diverging_pairs

SpecSingleDay == InitSingleDay /\ [][NextSingleDay]_vars

\* Matrices of at most MaxPairs entries over four symbols, with correlations
\* on either side of correlation_threshold, and the return series of all, of
\* one or of none of the symbols.
GroupPairs ==
    << <<"IWM", "NDX">>, <<"IWM", "SPX">>, <<"IWM", "URA">>,
       <<"NDX", "SPX">>, <<"NDX", "URA">>, <<"SPX", "URA">> >>
GroupCorrelations == {6999, 7000, 8000, 10000}

GroupMatrices ==
    UNION {
        {[i \in 1..Len(keys) |->
            <<keys[i], PairCorrelation(keys[i][1], keys[i][2], r[i], MaxDates)>>]
         : r \in [1..Len(keys) -> GroupCorrelations]}
        : keys \in {SelectSeq(GroupPairs, LAMBDA key : key \in chosen)
                    : chosen \in {c \in SUBSET Range(GroupPairs)
                                    : Cardinality(c) <= MaxPairs}}}

GroupReturns ==
    { <<>>,
      << <<"SPX", ReturnSeries("falling", 0)>> >>,
      << <<"IWM", ReturnSeries("step", 0)>>, <<"NDX", ReturnSeries("step", 0)>>,
         <<"SPX", ReturnSeries("step", 0)>>, <<"URA", ReturnSeries("step", 0)>> >>,
      << <<"IWM", ReturnSeries("falling", 0)>>, <<"NDX", ReturnSeries("step", 0)>>,
         <<"SPX", ReturnSeries("falling", 0)>>, <<"URA", ReturnSeries("falling", 0)>> >> }

InitMultiDayGroups ==
    /\ market_snapshots = {}
    /\ signals = <<>>
    /\ xs = <<>>
    /\ ys = <<>>
    /\ ret = NoCall
    /\ returns_by_symbol \in GroupReturns
    /\ pair_correlations \in GroupMatrices
    /\ snapshots = <<>>
    /\ daily_close_series = <<>>
    /\ classifier = NotRunning

\* the two grouping functions, each on its own inputs
InitGroups == InitSingleDay \/ InitMultiDayGroups

NextGroups ==
    \/ call_group_by_comovement
    \/ call_group_by_correlation

SpecGroups == InitGroups /\ [][NextGroups]_vars

----------------------------------------------------------------------------
(* Properties of the grouping and of the single-day detectors.             *)

\* C16: every group that _group_by_comovement and _group_by_correlation
\* return has at least two members, and its members are distinct symbols.
C16_NoSmallGroups ==
    ret.op \in {"_group_by_comovement", "_group_by_correlation"} =>
        \A i \in 1..Len(ret.value) :
            LET members == ret.value[i].symbols
            IN  /\ Len(members) >= 2
                /\ Cardinality(Range(members)) = Len(members)

\* a single-day grouping that returns a group although one mover, alone in
\* its band, is in none
C16_Witness ==
    /\ ret.op = "_group_by_comovement"
    /\ Len(ret.value) = 1
    /\ \E i \in 1..Len(snapshots) :
            /\ snapshots[i][2].change_pct # None
            /\ Abs(Get(snapshots[i][2].change_pct)) >= comovement_min_change_pct
            /\ \A g \in 1..Len(ret.value) : snapshots[i][1] \notin Range(ret.value[g].symbols)

\* the latest change of a symbol of snapshots, and whether it has one
Moved(sym) == ChangePct(snapshots, sym) # None
Change(sym) == Get(ChangePct(snapshots, sym))
SameDirection(a, b) ==
    (Change(a) > 0 /\ Change(b) > 0) \/ (Change(a) < 0 /\ Change(b) < 0)
OppositeDirections(a, b) ==
    (Change(a) > 0 /\ Change(b) < 0) \/ (Change(a) < 0 /\ Change(b) > 0)

\* the diverging pairs that name the symbols of key
Diverging(pairs, key) ==
    {i \in 1..Len(pairs) : <<pairs[i].symbol_a, pairs[i].symbol_b>> = key}

\* C18 as stated: _detect_diverging_pairs reports a baseline pair exactly when
\* its baseline is above diverging_baseline_threshold, both members have a
\* change whose magnitude exceeds comovement_min_change_pct and the two changes
\* have opposite signs; a reported pair carries the baseline of the table, and
\* nothing but baseline pairs is reported.
C18_DivergingPairs ==
    ret.op = "_detect_diverging_pairs" =>
        /\ \A key \in Keys(BASELINE_CORRELATIONS) :
            /\ Diverging(ret.value, key) # {}
                <=> (/\ Baseline(key) > diverging_baseline_threshold
                     /\ Moved(key[1]) /\ Moved(key[2])
                     /\ Abs(Change(key[1])) > comovement_min_change_pct
                     /\ Abs(Change(key[2])) > comovement_min_change_pct
                     /\ OppositeDirections(key[1], key[2]))
            /\ \A i \in Diverging(ret.value, key) : ret.value[i].baseline_r = Baseline(key)
        /\ \A i \in 1..Len(ret.value) :
                <<ret.value[i].symbol_a, ret.value[i].symbol_b>> \in Keys(BASELINE_CORRELATIONS)

\* the number of anomalies of one kind that name the symbols of key
Anomalies(anomalies, kind, key) ==
    Cardinality({i \in 1..Len(anomalies) :
                    anomalies[i].anomaly_type = kind /\ anomalies[i].symbols = key})

\* the claim about _detect_1d_anomalies, a change exceeding the threshold when
\* Exceeds(magnitude) holds
SingleDayRule(Exceeds(_)) ==
    ret.op = "_detect_1d_anomalies" =>
        /\ \A key \in Keys(BASELINE_CORRELATIONS) :
            LET a == key[1]
                b == key[2]
                considered == /\ Moved(a) /\ Moved(b)
                              /\ Exceeds(Abs(Change(a))) \/ Exceeds(Abs(Change(b)))
                both == Exceeds(Abs(Change(a))) /\ Exceeds(Abs(Change(b)))
                inverse_broken == Baseline(key) < -5000 /\ SameDirection(a, b)
                converged == Abs(Baseline(key)) < 3000 /\ SameDirection(a, b) /\ both
                direct_broken == Baseline(key) > 5000 /\ both /\ OppositeDirections(a, b)
            IN  /\ Anomalies(ret.value, "broken_correlation", key) =
                        IF considered /\ (inverse_broken \/ direct_broken) THEN 1 ELSE 0
                /\ Anomalies(ret.value, "unexpected_convergence", key) =
                        IF considered /\ converged THEN 1 ELSE 0
        /\ \A i \in 1..Len(ret.value) :
                /\ ret.value[i].symbols \in Keys(BASELINE_CORRELATIONS)
                /\ ret.value[i].anomaly_type \in {"broken_correlation", "unexpected_convergence"}

StrictlyAbove(magnitude) == magnitude > comovement_min_change_pct
AtLeast(magnitude) == magnitude >= comovement_min_change_pct

----------------------------------------------------------------------------
(* Every pairwise record of the engine.                                    *)

\* the matrix, the multi-day detectors and the single-day detectors, each
\* called on the inputs drawn for it
InitPairRecords == InitMatrix \/ InitDetectors \/ InitSingleDay

NextPairRecords ==
    \/ returns_by_symbol # <<>> /\ call_compute_correlation_matrix
    \/ pair_correlations # <<>> /\ call_detect_unexpected_convergence
    \/ pair_correlations # <<>> /\ call_detect_broken_correlations
    \/ pair_correlations # <<>> /\ call_detect_scarcity_divergence
    \/ snapshots # <<>> /\ call_detect_1d_anomalies
    \/ snapshots # <<>> /\ call_detect_diverging_pairs

SpecPairRecords == InitPairRecords /\ [][NextPairRecords]_vars

\* the two symbols of a record are in canonical order
Canonical(pair) == Len(pair) = 2 /\ StrLeq(pair[1], pair[2])

AnomalyDetectors ==
    {"_detect_unexpected_convergence", "_detect_broken_correlations",
     "_detect_scarcity_divergence", "_detect_1d_anomalies"}

----------------------------------------------------------------------------
(* The volatility signal.                                                  *)

\* the verdict of the volatility evaluator in the last regime result
VixDirection == ret.value.signals[2].direction
VixChange == Get(Latest("VIXY").change_pct)

----------------------------------------------------------------------------
(* correlations.py: daily returns.  A series is a list of (date, close),   *)
(* oldest first; closes are floats, and a percent change is a float in     *)
(* units of 4 %, so that the product by 100.0 is a product by 25.          *)

\* (series[i][1] - prev_price) / prev_price * 100.0, prev_price > 0
PercentChange(prev_price, price) == RoundToFloat(FSub(price, prev_price) * 25, prev_price)

\* _compute_daily_returns with a change of 0.0 where the previous close is 0.0
_compute_daily_returns_zero_filled(closes) ==
    [k \in 1..(IF closes = <<>> THEN 0 ELSE Len(closes) - 1) |->
        <<closes[k + 1][1],
          IF closes[k][2] = 0 THEN 0 ELSE PercentChange(closes[k][2], closes[k + 1][2])>>]

_compute_daily_returns(closes) ==
    LET indices == SelectSeq([k \in 1..(IF closes = <<>> THEN 0 ELSE Len(closes) - 1) |-> k + 1],
                             LAMBDA i : closes[i - 1][2] # 0)
    IN  [k \in 1..Len(indices) |->
            <<closes[indices[k]][1],
              PercentChange(closes[indices[k] - 1][2], closes[indices[k]][2])>>]

\* returns = _compute_daily_returns(prices), for one sym of the series
call_compute_daily_returns ==
    \E i \in 1..Len(daily_close_series) :
        /\ ret' = [op |-> "_compute_daily_returns", symbol |-> daily_close_series[i][1],
                   value |-> _compute_daily_returns(daily_close_series[i][2])]
        /\ UNCHANGED <<market_snapshots, signals, xs, ys, correlation_inputs, classifier>>

\* One series of at most MaxPrices closes on consecutive days, any of them 0.0
ClosePrices == {v \in {0, 96, 112} : IsFloat(v)}
CloseSeries ==
    UNION {{[i \in 1..n |-> <<i, closes[i]>>] : closes \in [1..n -> ClosePrices]}
           : n \in 0..MaxPrices}

InitReturns ==
    /\ market_snapshots = {}
    /\ signals = <<>>
    /\ xs = <<>>
    /\ ys = <<>>
    /\ ret = NoCall
    /\ returns_by_symbol = <<>>
    /\ pair_correlations = <<>>
    /\ snapshots = <<>>
    /\ classifier = NotRunning
    /\ daily_close_series \in {<< <<"SPX", closes>> >> : closes \in CloseSeries}

NextReturns == call_compute_daily_returns

SpecReturns == InitReturns /\ [][NextReturns]_vars

\* the closes handed to the last call of _compute_daily_returns
Closes == Lookup(daily_close_series, ret.symbol)
\* the indices (from 2) whose previous close is not zero, and the position
\* of such an index among them
Emitting == {i \in 2..Len(Closes) : Closes[i - 1][2] # 0}
Position(i) == Cardinality({j \in Emitting : j <= i})

----------------------------------------------------------------------------
(* correlations.py: detect_correlations.                                   *)
CorrelationResult(period, timestamp, data_points, groups, anomalies, notable_pairs, diverging) ==
    [period |-> period, timestamp |-> timestamp, data_points |-> data_points,
     groups |-> groups, anomalies |-> anomalies, notable_pairs |-> notable_pairs,
     diverging |-> diverging]

\* returns_by_symbol: the returns of the symbols that have min_pts of them
ReturnsBySymbol(closes_by_symbol) ==
    LET min_pts == min_data_points
        all == [i \in 1..Len(closes_by_symbol) |->
                    <<closes_by_symbol[i][1],
                      _compute_daily_returns(closes_by_symbol[i][2])>>]
    IN  SelectSeq(all, LAMBDA item : Len(item[2]) >= min_pts)

\* notable.sort(key=lambda x: abs(x["correlation"]), reverse=True), stable
RECURSIVE SortByStrength(_)
SortByStrength(pcs) ==
    IF pcs = <<>> THEN <<>>
    ELSE LET k == CHOOSE i \in 1..Len(pcs) :
                    /\ \A j \in 1..Len(pcs) :
                            Abs(pcs[j].correlation) <= Abs(pcs[i].correlation)
                    /\ \A j \in 1..(i - 1) :
                            Abs(pcs[j].correlation) < Abs(pcs[i].correlation)
         IN  <<pcs[k]>> \o SortByStrength(SubSeq(pcs, 1, k - 1)
                                          \o SubSeq(pcs, k + 1, Len(pcs)))

\* min(len(r) for r in returns_by_symbol.values()), of a dict that is not empty
RECURSIVE MinLen(_)
MinLen(rbs) ==
    IF Len(rbs) = 1 THEN Len(rbs[1][2])
    ELSE Min(Len(rbs[1][2]), MinLen(Tail(rbs)))

\* the multi-day result, from the correlation matrix on
MultiDayResult(period, now, rbs, pcs, corr_threshold) ==
    CorrelationResult(period, now, MinLen(rbs),
        _group_by_correlation(pcs, rbs, corr_threshold),
        _detect_unexpected_convergence(pcs) \o _detect_broken_correlations(pcs)
            \o _detect_scarcity_divergence(pcs),
        SortByStrength(SelectSeq([i \in 1..Len(pcs) |-> pcs[i][2]],
                                 LAMBDA pc : Abs(pc.correlation) >= corr_threshold)),
        <<>>)

\* the multi-day path, from returns_by_symbol on
MultiDayPath(period, now, rbs) ==
    IF rbs = <<>>
    THEN CorrelationResult(period, now, 0, <<>>, <<>>, <<>>, <<>>)
    ELSE MultiDayResult(period, now, rbs, _compute_correlation_matrix(rbs),
                        correlation_threshold)

\* The result of detect_correlations(conn, period) when the connection gives
\* the latest snapshots snaps and the daily closes closes_by_symbol.
detect_correlations_result(period, now, snaps, closes_by_symbol) ==
    IF period = "1D"
    THEN CorrelationResult("1D", now, 0, _group_by_comovement(snaps),
                           _detect_1d_anomalies(snaps), <<>>,
                           _detect_diverging_pairs(snaps))
    ELSE MultiDayPath(period, now, ReturnsBySymbol(closes_by_symbol))

Periods == {"1D", "1W"}

detect_correlations ==
    \E period \in Periods : \E now \in RegimeClock :
        /\ ret' = [op |-> "detect_correlations",
                   value |-> detect_correlations_result(period, now, snapshots,
                                                        daily_close_series)]
        /\ UNCHANGED <<market_snapshots, signals, xs, ys, correlation_inputs, classifier>>

\* The closes of the days 0..MaxDates of one symbol, following a course:
\* rising and falling by turns, the same a day late, flat, all zero, the
\* last three days only, a first close of zero, and doubling every day.
CloseDates == 0..MaxDates
CloseCourses == {"zigzag", "inverse", "flat", "zeros", "short", "late", "doubling"}
CloseOn(course, date) ==
    CASE course \in {"zigzag", "short"} -> IF date % 2 = 0 THEN 96 ELSE 112
      [] course = "inverse" -> IF date % 2 = 0 THEN 112 ELSE 96
      [] course = "flat" -> 112
      [] course = "zeros" -> 0
      [] course = "late" -> IF date = 0 THEN 0 ELSE IF date % 2 = 0 THEN 96 ELSE 112
      [] course = "doubling" -> Pow2(date)

DailyCloses_(course) ==
    LET dates == SelectSeq([i \in 1..(MaxDates + 1) |-> i - 1],
                           LAMBDA d : course = "short" => d >= MaxDates - 2)
    IN  [i \in 1..Len(dates) |-> <<dates[i], CloseOn(course, dates[i])>>]

AllDailyCloses == {DailyCloses_(course) : course \in CloseCourses}

InitMultiDay ==
    /\ market_snapshots = {}
    /\ signals = <<>>
    /\ xs = <<>>
    /\ ys = <<>>
    /\ ret = NoCall
    /\ returns_by_symbol = <<>>
    /\ pair_correlations = <<>>
    /\ snapshots = <<>>
    /\ classifier = NotRunning
    /\ daily_close_series \in
            UNION {DictsOver(S, AllDailyCloses) : S \in SUBSET MatrixSymbols}

\* what the connection holds: latest snapshots, or daily closes
InitDetect == InitSingleDay \/ InitMultiDay

NextDetect == detect_correlations

SpecDetect == InitDetect /\ [][NextDetect]_vars


----------------------------------------------------------------------------
(* Properties of the multi-day path.                                       *)

\* the last call was a multi-day detect_correlations
MultiDay == ret.op = "detect_correlations" /\ ret.value.period # "1D"

\* the series without one symbol, and the matrix of a dict of series
Without(sym) == SelectSeq(daily_close_series, LAMBDA item : item[1] # sym)
MatrixOf(closes_by_symbol) == _compute_correlation_matrix(ReturnsBySymbol(closes_by_symbol))

\* The data of a symbol is too short (fewer than min_data_points returns,
\* which is the case of closes that are all zero) or has zero variance (its
\* returns are all the same).
ReturnsOf(sym) == _compute_daily_returns(Lookup(daily_close_series, sym))
TooShort(sym) == Len(ReturnsOf(sym)) < min_data_points
ZeroVariance(sym) ==
    \A i, j \in 1..Len(ReturnsOf(sym)) : ReturnsOf(sym)[i][2] = ReturnsOf(sym)[j][2]
Degenerate(sym) == TooShort(sym) \/ ZeroVariance(sym)

\* the records of a list that do not involve a symbol
NotInvolving(records, sym) ==
    SelectSeq(records, LAMBDA record : sym \notin Range(record.symbols))

\* the results about the other symbols are those without the symbol
SameForOthers(sym) ==
    LET alone == detect_correlations_result(ret.value.period, ret.value.timestamp,
                                            snapshots, Without(sym))
    IN  /\ SelectSeq(MatrixOf(daily_close_series),
                     LAMBDA item : sym \notin Range(item[1]))
              = MatrixOf(Without(sym))
        /\ NotInvolving(ret.value.groups, sym) = alone.groups
        /\ NotInvolving(ret.value.anomalies, sym) = alone.anomalies

\* C21: a symbol whose data is missing, too short or degenerate (zero
\* variance, zero prices) yields no matrix entry of its own, and the matrix
\* entries, multi-day groups and anomalies that involve only other symbols
\* are the same with the symbol present as with it removed.
C21_DegenerateSymbol ==
    MultiDay =>
        \A sym \in Keys(daily_close_series) :
            Degenerate(sym) =>
                /\ \A i \in 1..Len(MatrixOf(daily_close_series)) :
                        sym \notin Range(MatrixOf(daily_close_series)[i][1])
                /\ SameForOthers(sym)


----------------------------------------------------------------------------
(* Single-day grouping on movers of close magnitudes.                      *)

\* Latest snapshots of three symbols: changes below, at and above
\* comovement_min_change_pct, a band apart and more, rising and falling.
ComovementSymbols == <<"NDX", "SPX", "VIXY">>
ComovementChanges ==
    {None, Some(2), Some(3), Some(4), Some(19), Some(20), Some(34), Some(-4), Some(-19)}

ComovementSnapshots ==
    UNION {
        {[i \in 1..Len(keys) |-> <<keys[i], [change_pct |-> c[i]]>>]
         : c \in [1..Len(keys) -> ComovementChanges]}
        : keys \in {SelectSeq(ComovementSymbols, LAMBDA sym : sym \in chosen)
                    : chosen \in SUBSET Range(ComovementSymbols)}}

InitComovement ==
    /\ market_snapshots = {}
    /\ signals = <<>>
    /\ xs = <<>>
    /\ ys = <<>>
    /\ ret = NoCall
    /\ returns_by_symbol = <<>>
    /\ pair_correlations = <<>>
    /\ snapshots \in ComovementSnapshots
    /\ daily_close_series = <<>>
    /\ classifier = NotRunning

NextComovement == call_group_by_comovement

SpecComovement == InitComovement /\ [][NextComovement]_vars

\* the movers of a direction: the symbols whose change is present and not
\* below the minimum change in magnitude
Movers(direction) ==
    {sym \in Keys(snapshots) :
        /\ Moved(sym)
        /\ IF direction = "up" THEN Change(sym) >= comovement_min_change_pct
           ELSE Change(sym) <= -comovement_min_change_pct}

\* Walking the movers of a direction by magnitude descending, a new cluster
\* starts between two movers exactly when two successive magnitudes from the
\* one to the other are more than the band apart.
Magnitude(sym) == Abs(Change(sym))
Successive(direction, a, b) ==
    /\ Magnitude(a) > Magnitude(b)
    /\ ~\E c \in Movers(direction) :
            Magnitude(a) > Magnitude(c) /\ Magnitude(c) > Magnitude(b)
SameCluster(direction, a, b) ==
    ~\E c, d \in Movers(direction) :
        /\ Magnitude(c) <= IF Magnitude(a) > Magnitude(b) THEN Magnitude(a) ELSE Magnitude(b)
        /\ Magnitude(d) >= IF Magnitude(a) > Magnitude(b) THEN Magnitude(b) ELSE Magnitude(a)
        /\ Successive(direction, c, d)
        /\ Magnitude(c) - Magnitude(d) > comovement_magnitude_band

\* the sum of the changes of the members of a group, in tenths of a percent
RECURSIVE SumOfChanges(_)
SumOfChanges(members) ==
    IF members = <<>> THEN 0 ELSE Change(Head(members)) + SumOfChanges(Tail(members))

\* what the grouping does with the movers, whatever the average is
ComovementGroups ==
    /\ \A i \in 1..Len(ret.value) :
          LET group == ret.value[i]
              members == Range(group.symbols)
          IN  /\ group.direction \in {"up", "down"}
              /\ members \subseteq Movers(group.direction)
              /\ \A a \in members : \A b \in Movers(group.direction) :
                    b \in members <=> SameCluster(group.direction, a, b)
              /\ \A j \in 1..(Len(group.symbols) - 1) :
                    Magnitude(group.symbols[j]) >= Magnitude(group.symbols[j + 1])
    /\ \A direction \in {"up", "down"} : \A a, b \in Movers(direction) :
          (a # b /\ SameCluster(direction, a, b)) =>
              \E i \in 1..Len(ret.value) :
                  /\ ret.value[i].direction = direction
                  /\ {a, b} \subseteq Range(ret.value[i].symbols)

\* C24 as stated: the average change of a group is the arithmetic mean of
\* its members' changes.
C24_Original ==
    ret.op = "_group_by_comovement" =>
        /\ ComovementGroups
        /\ \A i \in 1..Len(ret.value) :
              ret.value[i].avg_change_pct * Len(ret.value[i].symbols)
                  = 10 * SumOfChanges(ret.value[i].symbols)

\* C24: _group_by_comovement excludes every symbol whose change is absent or
\* below the minimum change in magnitude, never groups an up-mover with a
\* down-mover, and in each direction walks the movers by magnitude
\* descending, a mover joining the open cluster exactly when its magnitude is
\* within the band of the last member added and opening a new cluster
\* otherwise; the average change of a group is the arithmetic mean of its
\* members' changes rounded to two decimals.
C24_Comovement ==
    ret.op = "_group_by_comovement" =>
        /\ ComovementGroups
        /\ \A i \in 1..Len(ret.value) :
              LET count == Len(ret.value[i].symbols)
                  off == ret.value[i].avg_change_pct * count
                            - 10 * SumOfChanges(ret.value[i].symbols)
              IN  2 * Abs(off) <= count

\* three risers chained into one group, the first and the last more than
\* the band apart, and a group whose mean has more than two decimals
C24_Witness ==
    /\ ret.op = "_group_by_comovement"
    /\ Len(ret.value) = 1
    /\ Len(ret.value[1].symbols) = 3
    /\ Magnitude(ret.value[1].symbols[1]) - Magnitude(ret.value[1].symbols[3])
            > comovement_magnitude_band
    /\ (10 * SumOfChanges(ret.value[1].symbols)) % 3 # 0


----------------------------------------------------------------------------
(* Properties of the multi-day grouping.                                   *)

\* the matrix entries at or above the threshold, in the order of the matrix
HighPairs ==
    SelectSeq(pair_correlations,
              LAMBDA item : item[2].correlation >= correlation_threshold)

\* entry i is processed before entry j: by correlation descending, entries of
\* the same correlation in the order of the matrix
Before(i, j) ==
    \/ HighPairs[i][2].correlation > HighPairs[j][2].correlation
    \/ HighPairs[i][2].correlation = HighPairs[j][2].correlation /\ i < j
Nth(k) ==
    CHOOSE i \in 1..Len(HighPairs) :
        Cardinality({j \in 1..Len(HighPairs) : Before(j, i)}) = k - 1

\* the groups when the first k entries have been processed
RECURSIVE GroupsAfter(_)
GroupsAfter(k) ==
    IF k = 0 THEN <<>>
    ELSE LET groups == GroupsAfter(k - 1)
             pair == Range(HighPairs[Nth(k)][1])
             holding == {i \in 1..Len(groups) : groups[i] \cap pair # {}}
         IN  IF holding = {} THEN Append(groups, pair)
             ELSE LET first == CHOOSE i \in holding : \A j \in holding : i <= j
                  IN  [groups EXCEPT ![first] = groups[first] \cup pair]

Grouped == ret.op = "_group_by_correlation"
GroupMembers(i) == Range(ret.value[i].symbols)

\* C25: _group_by_correlation uses only the pairs whose correlation is at
\* least the threshold (0.7), processes them by correlation descending, and
\* for each pair adds both members to the first group that holds either
\* member, or starts a new group of the pair when none does; so the two
\* symbols of a pair of correlation 1 are in one group, and a pair below the
\* threshold neither creates nor extends a group.
C25_GreedyMerge ==
    Grouped =>
        /\ Len(ret.value) = Len(GroupsAfter(Len(HighPairs)))
        /\ \A i \in 1..Len(ret.value) :
              GroupMembers(i) = GroupsAfter(Len(HighPairs))[i]
        /\ \A k \in 1..Len(pair_correlations) :
              pair_correlations[k][2].correlation = 10000 =>
                  \E i \in 1..Len(ret.value) :
                      Range(pair_correlations[k][1]) \subseteq GroupMembers(i)
        /\ \A i \in 1..Len(ret.value) : \A sym \in GroupMembers(i) :
              \E k \in 1..Len(HighPairs) : sym \in Range(HighPairs[k][1])

\* a pair of correlation 1 opens a group, a weaker pair extends it, and a
\* pair just below the threshold leaves its other symbol out
C25_Witness ==
    /\ Grouped
    /\ Len(ret.value) = 1
    /\ Len(ret.value[1].symbols) = 3
    /\ \E k \in 1..Len(pair_correlations) :
          /\ pair_correlations[k][2].correlation = 10000
          /\ Range(pair_correlations[k][1]) \subseteq GroupMembers(1)
    /\ \E k \in 1..Len(pair_correlations) :
          /\ pair_correlations[k][2].correlation = 6999
          /\ Range(pair_correlations[k][1]) \cap GroupMembers(1) # {}
          /\ ~(Range(pair_correlations[k][1]) \subseteq GroupMembers(1))


\* the members of a group that have a return series, and the sum of their
\* most recent returns
WithReturns(i) ==
    {sym \in GroupMembers(i) :
        sym \in Keys(returns_by_symbol) /\ Lookup(returns_by_symbol, sym) # <<>>}
LastReturn(sym) ==
    Lookup(returns_by_symbol, sym)[Len(Lookup(returns_by_symbol, sym))][2]
RECURSIVE SumOfLastReturns(_)
SumOfLastReturns(syms) ==
    IF syms = {} THEN 0
    ELSE LET sym == CHOOSE s \in syms : TRUE
         IN  LastReturn(sym) + SumOfLastReturns(syms \ {sym})

\* C26: the direction of a multi-day group is up exactly when the mean of
\* its members' most recent returns is at least zero, and down otherwise;
\* members without a return series are left out of the mean, and a group of
\* which no member has a series gets the mean 0 and the direction up.
C26_GroupDirection ==
    Grouped =>
        \A i \in 1..Len(ret.value) :
            /\ ret.value[i].direction = "up" <=> SumOfLastReturns(WithReturns(i)) >= 0
            /\ ret.value[i].direction \in {"up", "down"}
            /\ WithReturns(i) = {} =>
                    ret.value[i].avg_change_pct = 0 /\ ret.value[i].direction = "up"

\* a group of a riser and a faller whose last returns cancel: up, at mean 0
C26_Witness ==
    /\ Grouped
    /\ \E i \in 1..Len(ret.value) :
          /\ ret.value[i].direction = "up"
          /\ ret.value[i].avg_change_pct = 0
          /\ \E a, b \in WithReturns(i) : LastReturn(a) > 0 /\ LastReturn(b) < 0
    /\ \E i \in 1..Len(ret.value) : ret.value[i].direction = "down"


\* C28: the groups that _group_by_correlation emits are pairwise disjoint:
\* after any sequence of merges no symbol is a member of two groups.
C28_DisjointGroups ==
    Grouped =>
        \A i, j \in 1..Len(ret.value) :
            i # j => GroupMembers(i) \cap GroupMembers(j) = {}


----------------------------------------------------------------------------
(* The multi-day path on four symbols whose correlations tie.              *)

\* Closes that stay at one level but for a move or two in the last three
\* days: a rise on the last day, a dip on the day before it, a fall on the
\* day before the last that stays, and a dip of two days.
TieCourses == {"rise", "dip", "fall", "long dip"}
TieCloseOn(course, date) ==
    CASE course = "rise" -> IF date = MaxDates THEN 112 ELSE 96
      [] course = "dip" -> IF date = MaxDates - 1 THEN 96 ELSE 112
      [] course = "fall" -> IF date >= MaxDates - 1 THEN 96 ELSE 112
      [] course = "long dip" ->
            IF date \in {MaxDates - 2, MaxDates - 1} THEN 96 ELSE 112
TieCloses ==
    {[i \in 1..(MaxDates + 1) |-> <<i - 1, TieCloseOn(course, i - 1)>>]
     : course \in TieCourses}
TieSymbols == {"IWM", "NDX", "SPX", "URA"}

\* each of the four symbols follows a course of its own, the series supplied
\* in any order

InitTies ==
    /\ market_snapshots = {}
    /\ signals = <<>>
    /\ xs = <<>>
    /\ ys = <<>>
    /\ ret = NoCall
    /\ returns_by_symbol = <<>>
    /\ pair_correlations = <<>>
    /\ snapshots = <<>>
    /\ classifier = NotRunning
    /\ daily_close_series \in
            {d \in DictsOver(TieSymbols, TieCloses) :
                \A i, j \in 1..Len(d) : i # j => d[i][2] # d[j][2]}

NextTies == detect_correlations

SpecTies == InitTies /\ [][NextTies]_vars

\* the series in the order of their symbols
InSymbolOrder(closes_by_symbol) ==
    [i \in 1..Len(closes_by_symbol) |->
        <<Sorted(Keys(closes_by_symbol))[i],
          Lookup(closes_by_symbol, Sorted(Keys(closes_by_symbol))[i])>>]

\* the lexicographic order of pair keys, and the order of processing: by
\* correlation descending, entries of the same correlation by their keys
KeyBefore(key, other) ==
    \/ key[1] # other[1] /\ StrLeq(key[1], other[1])
    \/ key[1] = other[1] /\ key[2] # other[2] /\ StrLeq(key[2], other[2])
EntryBefore(entry, other) ==
    \/ entry[2].correlation > other[2].correlation
    \/ entry[2].correlation = other[2].correlation /\ KeyBefore(entry[1], other[1])
HighEntries(matrix) ==
    {entry \in Range(matrix) : entry[2].correlation >= correlation_threshold}

\* the groups of the greedy merge when the entries are processed in that order
RECURSIVE GreedyGroups(_, _)
GreedyGroups(groups, entries) ==
    IF entries = {} THEN groups
    ELSE LET entry == CHOOSE e \in entries :
                        \A other \in entries \ {e} : EntryBefore(e, other)
             pair == Range(entry[1])
             holding == {i \in 1..Len(groups) : groups[i] \cap pair # {}}
         IN  IF holding = {} THEN GreedyGroups(Append(groups, pair), entries \ {entry})
             ELSE LET first == CHOOSE i \in holding : \A j \in holding : i <= j
                  IN  GreedyGroups([groups EXCEPT ![first] = groups[first] \cup pair],
                                   entries \ {entry})

\* C29: for a fixed set of return series the multi-day path gives the same
\* groups, with the same members, in whatever order the series are supplied,
\* also when pairs have exactly the same correlation: such pairs are
\* processed in the lexicographic order of their keys.
C29_OrderIndependent ==
    MultiDay =>
        /\ ret.value.groups =
              detect_correlations_result(ret.value.period, ret.value.timestamp, snapshots,
                                         InSymbolOrder(daily_close_series)).groups
        /\ [i \in 1..Len(ret.value.groups) |-> Range(ret.value.groups[i].symbols)]
              = GreedyGroups(<<>>, HighEntries(MatrixOf(daily_close_series)))

\* The series are supplied out of order; the pairs of the chain IWM - NDX -
\* SPX - URA tie and no other pair reaches the threshold: taken by their keys
\* they make one group, where (SPX, URA) before (NDX, SPX) would make two.
C29_Witness ==
    /\ MultiDay
    /\ daily_close_series # InSymbolOrder(daily_close_series)
    /\ Len(ret.value.groups) = 1
    /\ ret.value.groups[1].symbols = <<"IWM", "NDX", "SPX", "URA">>
    /\ LET high == HighEntries(MatrixOf(daily_close_series))
       IN  /\ {entry[1] : entry \in high}
                = {<<"IWM", "NDX">>, <<"NDX", "SPX">>, <<"SPX", "URA">>}
           /\ \A entry, other \in high : entry[2].correlation = other[2].correlation

----------------------------------------------------------------------------
(* The two single-day outputs of one result of detect_correlations.        *)

SingleDay == ret.op = "detect_correlations" /\ ret.value.period = "1D"

\* the anomalies of the result that report a pair of a baseline above 0.5
\* moving in opposite directions
OppositeBroken ==
    {i \in 1..Len(ret.value.anomalies) :
        /\ ret.value.anomalies[i].anomaly_type = "broken_correlation"
        /\ ret.value.anomalies[i].expected > 5000}

\* C30: in one single-day result of detect_correlations, every pair with an
\* opposite-direction broken_correlation anomaly (baseline above 0.5) is in
\* the diverging list with the same baseline, and every diverging pair whose
\* baseline is above 0.5 has such an anomaly.
C30_SingleDayOutputsAgree ==
    SingleDay =>
        /\ \A i \in OppositeBroken :
                \E j \in 1..Len(ret.value.diverging) :
                    /\ <<ret.value.diverging[j].symbol_a, ret.value.diverging[j].symbol_b>>
                            = ret.value.anomalies[i].symbols
                    /\ ret.value.diverging[j].baseline_r = ret.value.anomalies[i].expected
        /\ \A j \in 1..Len(ret.value.diverging) :
                ret.value.diverging[j].baseline_r > 5000 =>
                    \E i \in OppositeBroken :
                        ret.value.anomalies[i].symbols
                            = <<ret.value.diverging[j].symbol_a, ret.value.diverging[j].symbol_b>>

\* a single-day result with such an anomaly and with a diverging pair of a
\* baseline of exactly 0.5, which has none
C30_Witness ==
    /\ SingleDay
    /\ OppositeBroken # {}
    /\ \E j \in 1..Len(ret.value.diverging) : ret.value.diverging[j].baseline_r = 5000

----------------------------------------------------------------------------
(* classify_regime beside the quote job.  Both are coroutines of one event  *)
(* loop: classify_regime is suspended at every await of a query, and        *)
(* save_quotes may run to its commit while it is.  The session reads what   *)
(* is committed when a query executes.                                      *)

\* _eval_spx_trend after its two awaits: latest and sma are what they gave
spx_trend_signal(latest, sma) ==
    LET period == spx_ma_period
        price == Get(latest).price
        both == "(" \o Fmt0(price, 1) \o " vs "
                    \o Fmt0(Get(sma).num, Get(sma).den) \o ")"
    IN  IF sma = None
        THEN Signal("spx_trend", "neutral",
                    "insufficient history for " \o ToString(period) \o "-day MA")
        ELSE IF price * Get(sma).den > Get(sma).num
        THEN Signal("spx_trend", "risk_on",
                    "S&P above " \o ToString(period) \o "-day MA " \o both)
        ELSE Signal("spx_trend", "risk_off",
                    "S&P below " \o ToString(period) \o "-day MA " \o both)

\* _eval_hy_spread after its second await: the spread is not above
\* hy_spread_risk_off, week_ago is what the second query gave
hy_spread_signal(latest, week_ago) ==
    LET spread == Get(latest).price
        change_bps == IF week_ago = None THEN 0 ELSE spread - Get(week_ago).price
    IN  IF week_ago # None /\ change_bps > hy_spread_widening_bps
        THEN Signal("hy_spread", "risk_off",
                    "HY spreads widening (+" \o Fmt0(change_bps, 1) \o " bps WoW)")
        ELSE IF spread < hy_spread_risk_on
        THEN Signal("hy_spread", "risk_on", "HY spreads tight (" \o Fmt2(spread) \o "%)")
        ELSE Signal("hy_spread", "neutral", "HY spread neutral (" \o Fmt2(spread) \o "%)")

\* _eval_gold_vs_equities after its two awaits
gold_vs_equities_signal(gold, spx) ==
    IF gold = None \/ spx = None
    THEN Signal("gold_vs_equities", "neutral", "gold/equity data unavailable")
    ELSE IF Get(gold).change_pct = None \/ Get(spx).change_pct = None
    THEN Signal("gold_vs_equities", "neutral", "gold/equity change data unavailable")
    ELSE LET gold_pct == Get(Get(gold).change_pct)
             spx_pct == Get(Get(spx).change_pct)
         IN  IF gold_pct > gold_safe_haven_pct /\ gold_pct > spx_pct
             THEN Signal("gold_vs_equities", "risk_off",
                         "gold outperforming equities (+" \o Fmt1(gold_pct)
                             \o "% vs +" \o Fmt1(spx_pct) \o "%)")
             ELSE Signal("gold_vs_equities", "neutral", "gold not outperforming")

\* The frame of the call: pc names the query it is suspended at, signals are
\* the evaluators' results so far, latest and gold the rows an evaluator
\* holds between its two queries; stores records the store each query read.
Frame(pc, sigs, latest, gold, stores) ==
    [pc |-> pc, signals |-> sigs, latest |-> latest, gold |-> gold, stores |-> stores]

\* the frame after a query against the store
Resume(pc, sigs, latest, gold) ==
    Frame(pc, sigs, latest, gold, classifier.stores \cup {market_snapshots})

\* narrative_data awaits classify_regime(session): the call runs up to its
\* first query
begin_classify_regime ==
    /\ classifier.pc \in {"none", "returned"}
    /\ classifier' = Frame("spx_latest", <<>>, None, None, {})
    /\ UNCHANGED <<market_snapshots, signals, xs, ys, ret, correlation_inputs>>

\* latest = await _get_latest_snapshot(session, "SPY")
await_spx_latest ==
    /\ classifier.pc = "spx_latest"
    /\ LET latest == _get_latest_snapshot(market_snapshots, "SPY")
       IN  classifier' =
               IF latest = None
               THEN Resume("vix", <<Signal("spx_trend", "neutral",
                                           "S&P 500 data unavailable")>>, None, None)
               ELSE Resume("spx_sma", <<>>, latest, None)
    /\ UNCHANGED <<market_snapshots, signals, xs, ys, ret, correlation_inputs>>

\* sma = await _compute_sma(session, "SPY", period)
await_spx_sma ==
    /\ classifier.pc = "spx_sma"
    /\ LET sma == _compute_sma(market_snapshots, "SPY", spx_ma_period)
       IN  classifier' = Resume("vix", <<spx_trend_signal(classifier.latest, sma)>>,
                                None, None)
    /\ UNCHANGED <<market_snapshots, signals, xs, ys, ret, correlation_inputs>>

\* await _eval_vix(session): one query
await_vix ==
    /\ classifier.pc = "vix"
    /\ classifier' = Resume("hy_latest",
                            Append(classifier.signals, _eval_vix(market_snapshots)),
                            None, None)
    /\ UNCHANGED <<market_snapshots, signals, xs, ys, ret, correlation_inputs>>

\* latest = await _get_latest_snapshot(session, "BAMLH0A0HYM2")
await_hy_latest(clock) ==
    /\ classifier.pc = "hy_latest"
    /\ LET latest == _get_latest_snapshot(market_snapshots, "BAMLH0A0HYM2")
       IN  \E now \in ClockReads(market_snapshots, clock) :
           classifier' =
               IF latest = None \/ Get(latest).price > hy_spread_risk_off
               THEN Resume("dxy", Append(classifier.signals,
                                         _eval_hy_spread(market_snapshots, now)),
                           None, None)
               ELSE Resume("hy_week_ago", classifier.signals, latest, None)
    /\ UNCHANGED <<market_snapshots, signals, xs, ys, ret, correlation_inputs>>

\* week_ago = await _get_snapshot_n_days_ago(session, "BAMLH0A0HYM2", 7)
await_hy_week_ago(clock) ==
    /\ classifier.pc = "hy_week_ago"
    /\ \E now \in ClockReads(market_snapshots, clock) :
        LET week_ago == _get_snapshot_n_days_ago(market_snapshots, now,
                                                 "BAMLH0A0HYM2", HyDaysBack)
        IN  classifier' = Resume("dxy",
                                 Append(classifier.signals,
                                        hy_spread_signal(classifier.latest, week_ago)),
                                 None, None)
    /\ UNCHANGED <<market_snapshots, signals, xs, ys, ret, correlation_inputs>>

\* await _eval_dxy(session): one query
await_dxy ==
    /\ classifier.pc = "dxy"
    /\ classifier' = Resume("gold",
                            Append(classifier.signals, _eval_dxy(market_snapshots)),
                            None, None)
    /\ UNCHANGED <<market_snapshots, signals, xs, ys, ret, correlation_inputs>>

\* gold = await _get_latest_snapshot(session, "GLD")
await_gold ==
    /\ classifier.pc = "gold"
    /\ classifier' = Resume("gold_spx", classifier.signals, None,
                            _get_latest_snapshot(market_snapshots, "GLD"))
    /\ UNCHANGED <<market_snapshots, signals, xs, ys, ret, correlation_inputs>>

\* spx = await _get_latest_snapshot(session, "SPY"), and from there to the
\* return of classify_regime without another await
await_gold_spx(clock) ==
    /\ classifier.pc = "gold_spx"
    /\ \E now \in ClockReads(market_snapshots, clock) :
        LET spx == _get_latest_snapshot(market_snapshots, "SPY")
            sigs == Append(classifier.signals,
                           gold_vs_equities_signal(classifier.gold, spx))
        IN  /\ classifier' = Resume("returned", sigs, None, None)
            /\ ret' = [op |-> "classify_regime",
                       value |-> [label |-> _classify(sigs),
                                  reason |-> _build_reason(sigs),
                                  signals |-> sigs, timestamp |-> now]]
    /\ UNCHANGED <<market_snapshots, signals, xs, ys, correlation_inputs>>

\* The store beside a running classification: three quotes of SPY over two
\* days, and one quote of each other instrument the classifier reads.
MaxConcurrentRows == 3
ConcurrentTimes == {Timestamp(0, 0), Timestamp(1, 0), Timestamp(1, 1)}
ConcurrentQuotes ==
         {Quote("SPY", TRUE, p, Some(0), ts) : p \in {100, 102}, ts \in ConcurrentTimes}
    \cup {Quote("VIXY", TRUE, 40, Some(51), Timestamp(1, 0)),
          Quote("BAMLH0A0HYM2", TRUE, 340, None, Timestamp(1, 0)),
          Quote("GLD", TRUE, 180, Some(16), Timestamp(1, 0))}
ConcurrentClock == {Timestamp(1, 1)}

NextConcurrent ==
    \/ save_quotes(ConcurrentQuotes, MaxConcurrentRows)
    \/ begin_classify_regime
    \/ await_spx_latest
    \/ await_spx_sma
    \/ await_vix
    \/ await_hy_latest(ConcurrentClock)
    \/ await_hy_week_ago(ConcurrentClock)
    \/ await_dxy
    \/ await_gold
    \/ await_gold_spx(ConcurrentClock)

SpecConcurrent == Init /\ [][NextConcurrent]_vars

\* classify_regime has returned and its result is the last return
Returned == classifier.pc = "returned" /\ ret.op = "classify_regime"

\* C27: a regime result is computed from one consistent state of the store:
\* when save_quotes inserts while classify_regime is running, the five
\* signals of the result, the latest price and the moving average of the trend
\* signal among them, are those of one and the same set of snapshots.
C27_OneConsistentStore ==
    Returned =>
        \E db \in classifier.stores :
            ret.value.signals = RegimeResult(db, ret.value.timestamp).signals

============================================================================
